---- MODULE Spec2Model ----
(***************************************************************************)
(* Difficulty scoring, outlier-robust correlation and grid-search weight   *)
(* optimization of mental-addition-flow, as a state machine.               *)
(*                                                                         *)
(* Number representation.  JavaScript numbers are IEEE-754 doubles.  The   *)
(* grid axes of gridSearch are built by repeated double addition, so that  *)
(* part is modelled bit for bit (section "IEEE-754 doubles").  Weights are *)
(* the rounded axis values k/10 and are carried as the integer k (tenths). *)
(***************************************************************************)
EXTENDS Integers, Sequences, FiniteSets

(***************************************************************************)
(* IEEE-754 doubles: a finite non-negative double is [m, e] with value     *)
(* m * 2^e, m a natural number of at most 53 significant bits written as a *)
(* sequence of limbs in base 2^LimbBits, least significant first, without  *)
(* leading zero limbs.  Sums and products are rounded to nearest, ties to  *)
(* even, as the hardware does.                                             *)
(***************************************************************************)
\* 52 stored fraction bits and the implicit leading bit.
MantissaBits == 52 + 1

LimbBits == 8 * 3

LimbBase == 2 ^ LimbBits

MaxInt(a, b) == IF a > b THEN a ELSE b

MinInt(a, b) == IF a < b THEN a ELSE b

Limb(m, i) == IF i >= 1 /\ i <= Len(m) THEN m[i] ELSE 0

TrimLimbs(m) ==
    LET top == CHOOSE t \in 0..Len(m) :
                   /\ t = 0 \/ m[t] # 0
                   /\ \A j \in (t + 1)..Len(m) : m[j] = 0
    IN  SubSeq(m, 1, top)

BigOfNat(n) == TrimLimbs(<<n % LimbBase, n \div LimbBase>>)

\* Of a number below 2^31.
NatOfBig(m) == Limb(m, 1) + LimbBase * Limb(m, 2)

BigAdd(a, b) ==
    LET n == MaxInt(Len(a), Len(b)) + 1
        carry[i \in 1..n] ==
            IF i = 1 THEN 0
            ELSE (Limb(a, i - 1) + Limb(b, i - 1) + carry[i - 1]) \div LimbBase
    IN  TrimLimbs([i \in 1..n |-> (Limb(a, i) + Limb(b, i) + carry[i]) % LimbBase])

\* a * k for 0 <= k < 2^7.
BigTimes(a, k) ==
    LET n == Len(a) + 1
        carry[i \in 1..n] ==
            IF i = 1 THEN 0 ELSE (Limb(a, i - 1) * k + carry[i - 1]) \div LimbBase
    IN  TrimLimbs([i \in 1..n |-> (Limb(a, i) * k + carry[i]) % LimbBase])

\* a * 2^s
BigShiftLeft(a, s) ==
    LET q    == s \div LimbBits
        r    == s % LimbBits
        cut  == 2 ^ (LimbBits - r)
    IN  TrimLimbs([i \in 1..(Len(a) + q + 1) |->
                      (Limb(a, i - q) % cut) * (2 ^ r) + (Limb(a, i - q - 1) \div cut)])

\* floor(a / 2^s)
BigShiftRight(a, s) ==
    LET q == s \div LimbBits
        r == s % LimbBits
    IN  TrimLimbs([i \in 1..MaxInt(Len(a) - q, 0) |->
                      (Limb(a, i + q) \div (2 ^ r))
                      + (Limb(a, i + q + 1) % (2 ^ r)) * (2 ^ (LimbBits - r))])

\* Bit k of a, the lowest being bit 0.
BigBit(a, k) == (Limb(a, (k \div LimbBits) + 1) \div (2 ^ (k % LimbBits))) % 2

\* Whether a bit of a below bit s is set.
BigLowBitsSet(a, s) ==
    \E i \in 1..Len(a) :
        \/ i <= s \div LimbBits /\ a[i] # 0
        \/ i = (s \div LimbBits) + 1 /\ a[i] % (2 ^ (s % LimbBits)) # 0

BitLength(a) ==
    IF a = <<>> THEN 0
    ELSE LimbBits * (Len(a) - 1)
         + CHOOSE k \in 1..LimbBits : 2 ^ (k - 1) <= a[Len(a)] /\ a[Len(a)] < 2 ^ k

BigLess(a, b) ==
    \E i \in 1..MaxInt(Len(a), Len(b)) :
        /\ Limb(a, i) < Limb(b, i)
        /\ \A j \in (i + 1)..MaxInt(Len(a), Len(b)) : Limb(a, j) = Limb(b, j)

\* Round the exact value m * 2^e to the nearest double, ties to even.
RoundToDouble(m, e) ==
    IF BitLength(m) <= MantissaBits THEN [m |-> m, e |-> e]
    ELSE LET s  == BitLength(m) - MantissaBits
             q  == BigShiftRight(m, s)
             up == /\ BigBit(m, s - 1) = 1
                   /\ BigLowBitsSet(m, s - 1) \/ BigBit(q, 0) = 1
         IN  [m |-> IF up THEN BigAdd(q, <<1>>) ELSE q, e |-> e + s]

\* a + b
DoubleAdd(a, b) ==
    LET e == MinInt(a.e, b.e)
    IN  RoundToDouble(BigAdd(BigShiftLeft(a.m, a.e - e), BigShiftLeft(b.m, b.e - e)), e)

\* a * k for an integer 0 <= k < 2^7.
DoubleTimes(a, k) == RoundToDouble(BigTimes(a.m, k), a.e)

\* x <= y
DoubleLessEq(x, y) ==
    LET e  == MinInt(x.e, y.e)
        xm == BigShiftLeft(x.m, x.e - e)
        ym == BigShiftLeft(y.m, y.e - e)
    IN  ~BigLess(ym, xm)

\* The double nearest to p / q, for 0 <= p and 0 < q < 2^7: the integer part
\* and three limbs of the fraction by long division, the rest as a sticky bit.
DoubleOfRatio(p, q) ==
    LET r0 == p % q
        l1 == (r0 * LimbBase) \div q
        r1 == (r0 * LimbBase) % q
        l2 == (r1 * LimbBase) \div q
        r2 == (r1 * LimbBase) % q
        l3 == (r2 * LimbBase) \div q
        r3 == (r2 * LimbBase) % q
        low == IF r3 # 0 /\ l3 % 2 = 0 THEN l3 + 1 ELSE l3
    IN  RoundToDouble(TrimLimbs(<<low, l2, l1, p \div q>>), -(3 * LimbBits))

\* Math.round(a) = floor(a + 0.5), for a result below 2^31.
MathRound(a) ==
    IF a.e >= 0 THEN NatOfBig(BigShiftLeft(a.m, a.e))
    ELSE NatOfBig(BigShiftRight(BigAdd(a.m, BigShiftLeft(<<1>>, -a.e - 1)), -a.e))

\* A limb is two digits of HalfBits bits, so that the product of two digits
\* stays within the integers of the checker.
HalfBits == 4 * 3

HalfBase == 2 ^ HalfBits

\* The digits of a in base HalfBase, least significant first.
HalfDigits(a) ==
    [i \in 1..(2 * Len(a)) |->
        IF i % 2 = 1 THEN a[(i + 1) \div 2] % HalfBase ELSE a[i \div 2] \div HalfBase]

\* a * b for a of at most three limbs, as a mantissa is.
BigMul(a, b) ==
    LET ha == HalfDigits(a)
        hb == HalfDigits(b)
        n  == Len(ha) + Len(hb) + 2
        term(i, k) ==
            IF i <= Len(ha) /\ k + 1 - i >= 1 /\ k + 1 - i <= Len(hb)
            THEN ha[i] * hb[k + 1 - i] ELSE 0
        column == [k \in 1..n |->
                     term(1, k) + term(2, k) + term(3, k) + term(4, k) + term(5, k) + term(6, k)]
        carry[k \in 1..n] ==
            IF k = 1 THEN 0 ELSE (column[k - 1] + carry[k - 1]) \div HalfBase
        digit == [k \in 1..n |-> (column[k] + carry[k]) % HalfBase]
    IN  TrimLimbs([i \in 1..(n \div 2) |-> digit[2 * i - 1] + HalfBase * digit[2 * i]])

\* a - b for a >= b
BigSub(a, b) ==
    LET n == Len(a)
        borrow[i \in 1..(n + 1)] ==
            IF i = 1 THEN 0
            ELSE IF Limb(a, i - 1) - Limb(b, i - 1) - borrow[i - 1] < 0 THEN 1 ELSE 0
    IN  TrimLimbs([i \in 1..n |-> (Limb(a, i) - Limb(b, i) - borrow[i] + LimbBase) % LimbBase])

\* a * b
DoubleMul(a, b) == RoundToDouble(BigMul(a.m, b.m), a.e + b.e)

\* A signed double [neg, m, e] has the value (-1)^neg * m * 2^e; NaN is not
\* a value of this form and is told apart by the operations that produce it.
Signed(neg, a) == [neg |-> neg, m |-> a.m, e |-> a.e]

IsZero(a) == a.m = <<>>

\* a - b for non-negative doubles a and b.
DoubleSub(a, b) ==
    LET e  == MinInt(a.e, b.e)
        am == BigShiftLeft(a.m, a.e - e)
        bm == BigShiftLeft(b.m, b.e - e)
    IN  IF BigLess(am, bm) THEN Signed(TRUE, RoundToDouble(BigSub(bm, am), e))
        ELSE Signed(FALSE, RoundToDouble(BigSub(am, bm), e))

\* a * b for signed doubles.
SignedMul(a, b) == Signed(a.neg # b.neg, DoubleMul(a, b))

(***************************************************************************)
(* Exact numbers.  Outside the grid axes a JavaScript number is carried as *)
(* the exact rational [n, d] (d > 0) it stands for.  calculateCorrelation  *)
(* has two models: the exact one, used by the grid search, and             *)
(* calculateCorrelationDoubles, which rounds every sum, product and        *)
(* difference as double arithmetic does and tells which kind of value is   *)
(* returned.                                                               *)
(***************************************************************************)
Rat(n, d) == [n |-> n, d |-> d]

RatOfInt(k) == Rat(k, 1)

Abs(k) == IF k < 0 THEN -k ELSE k

RECURSIVE Gcd(_, _)
Gcd(a, b) == IF b = 0 THEN Abs(a) ELSE Gcd(b, a % b)

Lcm(a, b) == (a \div Gcd(a, b)) * b

RECURSIVE LcmOfDens(_, _)
LcmOfDens(vals, i) ==
    IF i > Len(vals) THEN 1 ELSE Lcm(vals[i].d, LcmOfDens(vals, i + 1))

RECURSIVE GcdOfInts(_, _)
GcdOfInts(ints, i) ==
    IF i > Len(ints) THEN 0 ELSE Gcd(ints[i], GcdOfInts(ints, i + 1))

\* Integers proportional, by one common positive factor, to the rationals of
\* vals: comparisons, the IQR fences and Pearson's r are unchanged by it.
ScaledInts(vals) ==
    LET l    == LcmOfDens(vals, 1)
        ints == [i \in 1..Len(vals) |-> vals[i].n * (l \div vals[i].d)]
        g    == GcdOfInts(ints, 1)
    IN  IF g = 0 THEN ints ELSE [i \in 1..Len(vals) |-> ints[i] \div g]

(***************************************************************************)
(* useOutlierDetection                                                     *)
(***************************************************************************)
\* Array.prototype.sort((a, b) => a - b) on a copy: ascending insertion.
RECURSIVE InsertSorted(_, _)
InsertSorted(sorted, v) ==
    IF sorted = <<>> THEN <<v>>
    ELSE IF v < Head(sorted) THEN <<v>> \o sorted
    ELSE <<Head(sorted)>> \o InsertSorted(Tail(sorted), v)

RECURSIVE SortAscending(_, _)
SortAscending(vals, i) ==
    IF i = 0 THEN <<>> ELSE InsertSorted(SortAscending(vals, i - 1), vals[i])

\* const sorted = [...values].sort((a, b) => a - b): the sorted array is a
\* new one, the caller's array keeps its order.
SortedCopy(values) == [sorted |-> SortAscending(values, Len(values)), values |-> values]

\* A variant of FlaggedIndices that also flags a value lying on a fence.
FlaggedIndicesInclusive(values, q1, q3, sensitivity10) ==
    {idx \in 0..(Len(values) - 1) :
        \/ 10 * values[idx + 1] <= 10 * q1 - sensitivity10 * (q3 - q1)
        \/ 10 * values[idx + 1] >= 10 * q3 + sensitivity10 * (q3 - q1)}

\* The pass over the caller's array that collects the indices (0-based, as in
\* the source) outside the fences; sensitivity in tenths (15 is 1.5).
FlaggedIndices(values, q1, q3, sensitivity10) ==
    {idx \in 0..(Len(values) - 1) :
        \/ 10 * values[idx + 1] < 10 * q1 - sensitivity10 * (q3 - q1)
        \/ 10 * values[idx + 1] > 10 * q3 + sensitivity10 * (q3 - q1)}

\* A variant of DetectOutliersInts that takes q3 one position lower.
DetectOutliersLowerQuartile(v, sensitivity10) ==
    IF Len(v) < 4 THEN [outliers |-> {}, values |-> v]
    ELSE LET copy == SortedCopy(v)
             q1   == copy.sorted[((Len(v) * 25) \div 100) + 1]
             q3   == copy.sorted[(Len(v) * 75) \div 100]
         IN  [outliers |-> FlaggedIndices(copy.values, q1, q3, sensitivity10),
              values   |-> copy.values]

\* detectOutliersIQR on integer values, with the caller's array as the call
\* leaves it.
DetectOutliersInts(v, sensitivity10) ==
    IF Len(v) < 4 THEN [outliers |-> {}, values |-> v]
    ELSE LET copy    == SortedCopy(v)
             q1Index == (Len(v) * 25) \div 100
             q3Index == (Len(v) * 75) \div 100
             q1      == copy.sorted[q1Index + 1]
             q3      == copy.sorted[q3Index + 1]
         IN  [outliers |-> FlaggedIndices(copy.values, q1, q3, sensitivity10),
              values   |-> copy.values]

detectOutliersIQR(values, sensitivity10) ==
    DetectOutliersInts(ScaledInts(values), sensitivity10).outliers

\* A DataPoint is [x, y, isOutlier] with x and y exact rationals.
DataPoint(x, y, isOutlier) == [x |-> x, y |-> y, isOutlier |-> isOutlier]

XValues(points) == [i \in 1..Len(points) |-> points[i].x]

YValues(points) == [i \in 1..Len(points) |-> points[i].y]

\* A variant of applyOutlierDetection that leaves the flags alone when it
\* does not detect.
applyOutlierDetectionKeepFlags(points, sensitivity10, enabled) ==
    IF ~enabled \/ Len(points) < 4 THEN points
    ELSE [i \in 1..Len(points) |->
             [points[i] EXCEPT !.isOutlier =
                 \/ (i - 1) \in detectOutliersIQR(XValues(points), sensitivity10)
                 \/ (i - 1) \in detectOutliersIQR(YValues(points), sensitivity10)]]

\* applyOutlierDetection: the returned array holds the caller's own point
\* objects (a shallow copy of the array) with isOutlier assigned.
applyOutlierDetection(points, sensitivity10, enabled) ==
    IF ~enabled \/ Len(points) < 4
    THEN [i \in 1..Len(points) |-> [points[i] EXCEPT !.isOutlier = FALSE]]
    ELSE LET xOutliers == detectOutliersIQR(XValues(points), sensitivity10)
             yOutliers == detectOutliersIQR(YValues(points), sensitivity10)
         IN  [i \in 1..Len(points) |->
                 [points[i] EXCEPT !.isOutlier =
                     (i - 1) \in xOutliers \/ (i - 1) \in yOutliers]]

\* applyOutlierDetection on objects.  heap maps an object to its fields and
\* points is the caller's array of objects.  result = [...points] is a new
\* array of the same objects, xValues and yValues are read before any write,
\* and point.isOutlier = ... writes to the object, in the order of the array.
applyOutlierDetectionInPlace(heap, points, sensitivity10, enabled) ==
    LET flagged == applyOutlierDetection([i \in 1..Len(points) |-> heap[points[i]]],
                                         sensitivity10, enabled)
        lastAt(object) == CHOOSE i \in 1..Len(points) :
                              /\ points[i] = object
                              /\ \A j \in (i + 1)..Len(points) : points[j] # object
    IN  [result |-> points,
         heap   |-> [object \in DOMAIN heap |->
                        IF \E i \in 1..Len(points) : points[i] = object
                        THEN [heap[object] EXCEPT
                                 !.isOutlier = flagged[lastAt(object)].isOutlier]
                        ELSE heap[object]]]

\* What the caller finds in the array it passed once the call has returned.
InputAfterCall(points, sensitivity10, enabled) ==
    LET objects == [i \in 1..Len(points) |-> i]
        after   == applyOutlierDetectionInPlace(points, objects, sensitivity10, enabled)
    IN  [i \in 1..Len(points) |-> after.heap[objects[i]]]

\* The x-only flagging the chart components do by hand for binary outcomes.
flagXOutliersOnly(points, sensitivity10) ==
    IF Len(points) >= 4
    THEN LET xOutliers == detectOutliersIQR(XValues(points), sensitivity10)
         IN  [i \in 1..Len(points) |->
                 [points[i] EXCEPT !.isOutlier = (i - 1) \in xOutliers]]
    ELSE points

\* points.filter(p => !p.isOutlier)
RECURSIVE NonOutliers(_, _)
NonOutliers(points, i) ==
    IF i > Len(points) THEN <<>>
    ELSE IF points[i].isOutlier THEN NonOutliers(points, i + 1)
    ELSE <<points[i]>> \o NonOutliers(points, i + 1)

(***************************************************************************)
(* useCorrelationStats.  A correlation is null or a number; the number is  *)
(* carried in units of 1/CorrelationScale, truncated toward zero.          *)
(***************************************************************************)
ScaleBits == 5 * 3

CorrelationScale == 2 ^ ScaleBits

Null == [null |-> TRUE, v |-> 0]

Num(v) == [null |-> FALSE, v |-> v]

RECURSIVE SumSeq(_, _)
SumSeq(q, i) == IF i > Len(q) THEN 0 ELSE q[i] + SumSeq(q, i + 1)

\* floor(n * 2^k / p) for 0 <= n <= p, by binary long division.
RECURSIVE ScaledQuotient(_, _, _, _)
ScaledQuotient(rem, p, k, acc) ==
    IF k = 0 THEN acc
    ELSE ScaledQuotient((2 * rem) % p, p, k - 1, 2 * acc + ((2 * rem) \div p))

\* floor(sqrt(q))
RECURSIVE IsqrtBetween(_, _, _)
IsqrtBetween(q, lo, hi) ==
    IF lo = hi THEN lo
    ELSE LET mid == (lo + hi + 1) \div 2
         IN  IF mid * mid <= q THEN IsqrtBetween(q, mid, hi)
             ELSE IsqrtBetween(q, lo, mid - 1)

\* numerator / Math.sqrt(radicand) in units of 1/CorrelationScale.
DivideBySqrt(numerator, radicand) ==
    LET q == ScaledQuotient(numerator * numerator, radicand, 2 * ScaleBits, 0)
        r == IsqrtBetween(q, 0, CorrelationScale)
    IN  IF numerator < 0 THEN -r ELSE r

calculateCorrelation(points) ==
    IF Len(points) < 2 THEN Null
    ELSE LET n     == Len(points)
             xs    == ScaledInts(XValues(points))
             ys    == ScaledInts(YValues(points))
             sumX  == SumSeq(xs, 1)
             sumY  == SumSeq(ys, 1)
             sumXY == SumSeq([i \in 1..n |-> xs[i] * ys[i]], 1)
             sumX2 == SumSeq([i \in 1..n |-> xs[i] * xs[i]], 1)
             sumY2 == SumSeq([i \in 1..n |-> ys[i] * ys[i]], 1)
             numerator == n * sumXY - sumX * sumY
             radicand  == (n * sumX2 - sumX * sumX) * (n * sumY2 - sumY * sumY)
         IN  IF radicand = 0 THEN Null
             ELSE Num(DivideBySqrt(numerator, radicand))

\* The double nearest to a non-negative rational with a denominator below 2^7.
ToDouble(r) == DoubleOfRatio(r.n, r.d)

\* values.reduce((sum, v) => sum + v, sum) from the i-th value on, in double
\* arithmetic.
RECURSIVE DoubleReduce(_, _, _)
DoubleReduce(values, sum, i) ==
    IF i > Len(values) THEN sum ELSE DoubleReduce(values, DoubleAdd(sum, values[i]), i + 1)

DoubleSum(values) == DoubleReduce(values, ToDouble(Rat(0, 1)), 1)

\* What calculateCorrelation returns when its sums, products and differences
\* are rounded as double arithmetic rounds them: "null", "NaN" (the square
\* root of a negative radicand, which is not === 0, divides the numerator) or
\* "number".  The points hold non-negative values.
calculateCorrelationDoubles(points) ==
    IF Len(points) < 2 THEN "null"
    ELSE LET n     == Len(points)
             xs    == [i \in 1..n |-> ToDouble(points[i].x)]
             ys    == [i \in 1..n |-> ToDouble(points[i].y)]
             sumX  == DoubleSum(xs)
             sumY  == DoubleSum(ys)
             sumXY == DoubleSum([i \in 1..n |-> DoubleMul(xs[i], ys[i])])
             sumX2 == DoubleSum([i \in 1..n |-> DoubleMul(xs[i], xs[i])])
             sumY2 == DoubleSum([i \in 1..n |-> DoubleMul(ys[i], ys[i])])
             numerator == DoubleSub(DoubleTimes(sumXY, n), DoubleMul(sumX, sumY))
             radicand  == SignedMul(DoubleSub(DoubleTimes(sumX2, n), DoubleMul(sumX, sumX)),
                                    DoubleSub(DoubleTimes(sumY2, n), DoubleMul(sumY, sumY)))
         IN  IF IsZero(radicand) THEN "null"
             ELSE IF radicand.neg THEN "NaN"
             ELSE "number"

(***************************************************************************)
(* Records.  An ExerciseRecord is [id, operandA, operandB, answer,         *)
(* displayedAt, solvedAt, mode, keystrokeCount]; an EvaluationRecord is    *)
(* [rating, exerciseIds, mode].  An optional field that is absent holds    *)
(* Undefined.                                                              *)
(***************************************************************************)
Undefined == -1

RatLess(a, b) == a.n * b.d < b.n * a.d

RatEq(a, b) == a.n * b.d = b.n * a.d

(***************************************************************************)
(* useDifficultyCalculation.  Weights and raw scores are in tenths.        *)
(***************************************************************************)
Tenths(k) == 10 * k

\* String(n).split('').reverse(): the decimal digits, least significant first.
RECURSIVE ReversedDigits(_)
ReversedDigits(n) ==
    IF n < 10 THEN <<n>> ELSE <<n % 10>> \o ReversedDigits(n \div 10)

countTotalDigits(operandA, operandB) ==
    Len(ReversedDigits(operandA)) + Len(ReversedDigits(operandB))

ZeroDigits(n) ==
    Cardinality({i \in 1..Len(ReversedDigits(n)) : ReversedDigits(n)[i] = 0})

\* A variant of countZeros that returns the count itself.
countZerosUnsigned(operandA, operandB) == ZeroDigits(operandA) + ZeroDigits(operandB)

countZeros(operandA, operandB) == -(ZeroDigits(operandA) + ZeroDigits(operandB))

\* A variant of the loop that never carries into the next position.
RECURSIVE CarryLoopWithoutCarryIn(_, _, _, _, _, _)
CarryLoopWithoutCarryIn(strA, strB, i, maxLen, carry, carryovers) ==
    IF i > maxLen THEN carryovers
    ELSE LET digitA == IF i <= Len(strA) THEN strA[i] ELSE 0
             digitB == IF i <= Len(strB) THEN strB[i] ELSE 0
         IN  IF digitA + digitB >= 10
             THEN CarryLoopWithoutCarryIn(strA, strB, i + 1, maxLen, 1, carryovers + 1)
             ELSE CarryLoopWithoutCarryIn(strA, strB, i + 1, maxLen, 0, carryovers)

RECURSIVE CarryLoop(_, _, _, _, _, _)
CarryLoop(strA, strB, i, maxLen, carry, carryovers) ==
    IF i > maxLen THEN carryovers
    ELSE LET digitA == IF i <= Len(strA) THEN strA[i] ELSE 0
             digitB == IF i <= Len(strB) THEN strB[i] ELSE 0
             sum    == digitA + digitB + carry
         IN  IF sum >= 10
             THEN CarryLoop(strA, strB, i + 1, maxLen, 1, carryovers + 1)
             ELSE CarryLoop(strA, strB, i + 1, maxLen, 0, carryovers)

\* A variant of countCarryovers that scans the positions of the first operand
\* only.
countCarryoversOverFirstOperand(operandA, operandB) ==
    LET strA == ReversedDigits(operandA)
        strB == ReversedDigits(operandB)
    IN  CarryLoop(strA, strB, 1, Len(strA), 0, 0)

countCarryovers(operandA, operandB) ==
    LET strA == ReversedDigits(operandA)
        strB == ReversedDigits(operandB)
    IN  CarryLoop(strA, strB, 1, MaxInt(Len(strA), Len(strB)), 0, 0)

calculateDifficultyScore(ex, weights) ==
      weights.digits * countTotalDigits(ex.operandA, ex.operandB)
    + weights.carryovers * countCarryovers(ex.operandA, ex.operandB)
    + weights.zeros * countZeros(ex.operandA, ex.operandB)

PassesMode(record, modeFilter) == modeFilter = "all" \/ record.mode = modeFilter

RECURSIVE RangeScores(_, _, _, _)
RangeScores(exercises, weights, modeFilter, i) ==
    IF i > Len(exercises) THEN <<>>
    ELSE IF ~PassesMode(exercises[i], modeFilter)
    THEN RangeScores(exercises, weights, modeFilter, i + 1)
    ELSE <<calculateDifficultyScore(exercises[i], weights)>>
         \o RangeScores(exercises, weights, modeFilter, i + 1)

SeqMin(q) == CHOOSE v \in {q[i] : i \in 1..Len(q)} : \A i \in 1..Len(q) : v <= q[i]

SeqMax(q) == CHOOSE v \in {q[i] : i \in 1..Len(q)} : \A i \in 1..Len(q) : v >= q[i]

\* A variant of calculateDifficultyRange that returns equal bounds unwidened.
calculateDifficultyRangeUnwidened(exercises, weights, modeFilter) ==
    LET scores == RangeScores(exercises, weights, modeFilter, 1)
    IN  IF Len(scores) = 0 THEN [min |-> Tenths(0), max |-> Tenths(100)]
        ELSE [min |-> SeqMin(scores), max |-> SeqMax(scores)]

calculateDifficultyRange(exercises, weights, modeFilter) ==
    LET scores == RangeScores(exercises, weights, modeFilter, 1)
    IN  IF Len(scores) = 0 THEN [min |-> Tenths(0), max |-> Tenths(100)]
        ELSE LET min == SeqMin(scores)
                 max == SeqMax(scores)
             IN  IF min = max THEN [min |-> min - Tenths(1), max |-> min + Tenths(1)]
                 ELSE [min |-> min, max |-> max]

\* A variant of normalizeDifficulty that divides by the upper bound.
normalizeDifficultyByMax(rawScore, range) ==
    Rat((rawScore - range.min) * 100, range.max)

normalizeDifficulty(rawScore, range) ==
    Rat((rawScore - range.min) * 100, range.max - range.min)

(***************************************************************************)
(* useWeightOptimization                                                   *)
(***************************************************************************)
HasId(ex) == ex.id # Undefined /\ ex.id # 0

Difficulty(ex, weights, range) ==
    normalizeDifficulty(calculateDifficultyScore(ex, weights), range)

\* A composite score is a rational, or -Infinity (the placeholder's score).
NegInfinity == [negInf |-> TRUE, n |-> 0, d |-> 1]

Finite(n, d) == [negInf |-> FALSE, n |-> n, d |-> d]

\* a > b
GreaterThan(a, b) ==
    /\ ~a.negInf
    /\ (b.negInf \/ a.n * b.d > b.n * a.d)

\* A variant of calculateCompositeScore that adds correctness with its sign.
calculateCompositeScoreSigned(correlations) ==
    LET sum   == (IF correlations.cl.null THEN 0 ELSE correlations.cl.v)
               + (IF correlations.time.null THEN 0 ELSE correlations.time.v)
               + (IF correlations.correctness.null THEN 0
                  ELSE correlations.correctness.v)
        count == (IF correlations.cl.null THEN 0 ELSE 1)
               + (IF correlations.time.null THEN 0 ELSE 1)
               + (IF correlations.correctness.null THEN 0 ELSE 1)
    IN  IF count > 0 THEN Finite(sum, count) ELSE Finite(0, 1)

calculateCompositeScore(correlations) ==
    LET sum   == (IF correlations.cl.null THEN 0 ELSE correlations.cl.v)
               + (IF correlations.time.null THEN 0 ELSE correlations.time.v)
               + (IF correlations.correctness.null THEN 0
                  ELSE Abs(correlations.correctness.v))
        count == (IF correlations.cl.null THEN 0 ELSE 1)
               + (IF correlations.time.null THEN 0 ELSE 1)
               + (IF correlations.correctness.null THEN 0 ELSE 1)
    IN  IF count > 0 THEN Finite(sum, count) ELSE Finite(0, 1)

\* A variant of the difficulty vs time points without the upper bound of the
\* solve-time gate.
RECURSIVE TimePointsWithoutUpperGate(_, _, _, _, _)
TimePointsWithoutUpperGate(exercises, weights, modeFilter, range, i) ==
    IF i > Len(exercises) THEN <<>>
    ELSE LET ex       == exercises[i]
             rest     == TimePointsWithoutUpperGate(exercises, weights, modeFilter, range,
                                                    i + 1)
             duration == Rat(ex.solvedAt - ex.displayedAt, 1000)
         IN  IF ex.solvedAt = Undefined \/ ex.solvedAt = 0 \/ ~HasId(ex) THEN rest
             ELSE IF ~PassesMode(ex, modeFilter) THEN rest
             ELSE IF RatLess(duration, Rat(1, 2)) THEN rest
             ELSE <<DataPoint(Difficulty(ex, weights, range), duration, FALSE)>> \o rest

\* Difficulty vs time points.
RECURSIVE TimePoints(_, _, _, _, _)
TimePoints(exercises, weights, modeFilter, range, i) ==
    IF i > Len(exercises) THEN <<>>
    ELSE LET ex       == exercises[i]
             rest     == TimePoints(exercises, weights, modeFilter, range, i + 1)
             duration == Rat(ex.solvedAt - ex.displayedAt, 1000)
         IN  IF ex.solvedAt = Undefined \/ ex.solvedAt = 0 \/ ~HasId(ex) THEN rest
             ELSE IF ~PassesMode(ex, modeFilter) THEN rest
             ELSE IF RatLess(duration, Rat(1, 2)) \/ RatLess(Rat(120, 1), duration)
             THEN rest
             ELSE <<DataPoint(Difficulty(ex, weights, range), duration, FALSE)>> \o rest

\* ratingMap.get(exerciseId): the ratings pushed for one exercise id.
RECURSIVE CountIn(_, _, _)
CountIn(ids, id, i) ==
    IF i > Len(ids) THEN 0
    ELSE (IF ids[i] = id THEN 1 ELSE 0) + CountIn(ids, id, i + 1)

RECURSIVE RatingsOf(_, _, _, _)
RatingsOf(evaluations, modeFilter, exerciseId, i) ==
    IF i > Len(evaluations) THEN <<>>
    ELSE LET evaluation == evaluations[i]
             rest == RatingsOf(evaluations, modeFilter, exerciseId, i + 1)
         IN  IF ~PassesMode(evaluation, modeFilter) THEN rest
             ELSE IF evaluation.rating < 1 \/ evaluation.rating > 9 THEN rest
             ELSE [k \in 1..CountIn(evaluation.exerciseIds, exerciseId, 1)
                     |-> evaluation.rating] \o rest

\* A variant of the difficulty vs CL rating points whose y is the sum of the
\* ratings.
RECURSIVE RatingPointsSummed(_, _, _, _, _, _)
RatingPointsSummed(exercises, evaluations, weights, modeFilter, range, i) ==
    IF i > Len(exercises) THEN <<>>
    ELSE LET ex      == exercises[i]
             rest    == RatingPointsSummed(exercises, evaluations, weights, modeFilter,
                                           range, i + 1)
             ratings == RatingsOf(evaluations, modeFilter, ex.id, 1)
         IN  IF ~HasId(ex) THEN rest
             ELSE IF Len(ratings) = 0 THEN rest
             ELSE <<DataPoint(Difficulty(ex, weights, range),
                              Rat(SumSeq(ratings, 1), 1), FALSE)>> \o rest

\* Difficulty vs CL rating points.
RECURSIVE RatingPoints(_, _, _, _, _, _)
RatingPoints(exercises, evaluations, weights, modeFilter, range, i) ==
    IF i > Len(exercises) THEN <<>>
    ELSE LET ex      == exercises[i]
             rest    == RatingPoints(exercises, evaluations, weights, modeFilter,
                                     range, i + 1)
             ratings == RatingsOf(evaluations, modeFilter, ex.id, 1)
         IN  IF ~HasId(ex) THEN rest
             ELSE IF Len(ratings) = 0 THEN rest
             ELSE <<DataPoint(Difficulty(ex, weights, range),
                              Rat(SumSeq(ratings, 1), Len(ratings)), FALSE)>> \o rest

\* The keystroke-efficiency gate and the binary correctness label.
Efficiency(ex) == Rat(ex.keystrokeCount * 100, Len(ReversedDigits(ex.answer)))

EfficiencyInBand(ex) ==
    ~(RatLess(Efficiency(ex), Rat(100, 1)) \/ RatLess(Rat(500, 1), Efficiency(ex)))

\* A variant of IsCorrect that accepts up to twice the optimal keystrokes.
IsCorrectUpToTwice(ex) == IF RatLess(Rat(200, 1), Efficiency(ex)) THEN 0 ELSE 1

IsCorrect(ex) == IF RatEq(Efficiency(ex), Rat(100, 1)) THEN 1 ELSE 0

\* Difficulty vs correctness points.
RECURSIVE CorrectnessPoints(_, _, _, _, _)
CorrectnessPoints(exercises, weights, modeFilter, range, i) ==
    IF i > Len(exercises) THEN <<>>
    ELSE LET ex   == exercises[i]
             rest == CorrectnessPoints(exercises, weights, modeFilter, range, i + 1)
         IN  IF ~HasId(ex) \/ ex.keystrokeCount = Undefined THEN rest
             ELSE IF ~PassesMode(ex, modeFilter) THEN rest
             ELSE IF ~EfficiencyInBand(ex) THEN rest
             ELSE <<DataPoint(Difficulty(ex, weights, range),
                              RatOfInt(IsCorrect(ex)), FALSE)>> \o rest

\* The optimizer's correctness point set after its outlier step.
OptimizerCorrectnessPoints(weights, exercises, modeFilter, detectOutliers, outlierSensitivity) ==
    applyOutlierDetection(
        CorrectnessPoints(exercises, weights, modeFilter,
                          calculateDifficultyRange(exercises, weights, modeFilter), 1),
        outlierSensitivity, detectOutliers)

\* The difficulty predictor's difficultyVsCorrectness: the same points, built
\* with the component's weights and range, flagged on the x-values alone.
difficultyVsCorrectness(exercises, difficultyWeights, modeFilter, outlierSensitivity) ==
    flagXOutliersOnly(
        CorrectnessPoints(exercises, difficultyWeights, modeFilter,
                          calculateDifficultyRange(exercises, difficultyWeights,
                                                   modeFilter), 1),
        outlierSensitivity)

\* exerciseMap.get(id): the last exercise stored under the id, as an index
\* into exercises, or 0.
ExerciseById(exercises, id) ==
    LET hits == {i \in 1..Len(exercises) : HasId(exercises[i]) /\ exercises[i].id = id}
    IN  IF hits = {} THEN 0 ELSE CHOOSE i \in hits : \A j \in hits : j <= i

\* CognitiveLoadCorrelations: the rating vs correctness points of one
\* evaluation, from its k-th exercise id on.
RECURSIVE RatingCorrectnessOfIds(_, _, _)
RatingCorrectnessOfIds(exercises, evaluation, k) ==
    IF k > Len(evaluation.exerciseIds) THEN <<>>
    ELSE LET at   == ExerciseById(exercises, evaluation.exerciseIds[k])
             rest == RatingCorrectnessOfIds(exercises, evaluation, k + 1)
         IN  IF at = 0 THEN rest
             ELSE IF exercises[at].keystrokeCount = Undefined THEN rest
             ELSE IF ~EfficiencyInBand(exercises[at]) THEN rest
             ELSE <<DataPoint(RatOfInt(evaluation.rating),
                              RatOfInt(IsCorrect(exercises[at])), FALSE)>> \o rest

RECURSIVE RatingCorrectnessPoints(_, _, _, _)
RatingCorrectnessPoints(exercises, evaluations, modeFilter, i) ==
    IF i > Len(evaluations) THEN <<>>
    ELSE LET evaluation == evaluations[i]
             rest == RatingCorrectnessPoints(exercises, evaluations, modeFilter, i + 1)
         IN  IF ~PassesMode(evaluation, modeFilter) THEN rest
             ELSE IF evaluation.rating < 1 \/ evaluation.rating > 9 THEN rest
             ELSE RatingCorrectnessOfIds(exercises, evaluation, 1) \o rest

correctnessDataPoints(exercises, evaluations, modeFilter, outlierSensitivity) ==
    flagXOutliersOnly(RatingCorrectnessPoints(exercises, evaluations, modeFilter, 1),
                      outlierSensitivity)

(***************************************************************************)
(* Where the points come from.  A point set is built by one push per       *)
(* exercise (optimizer, predictor) or per exercise id of an evaluation     *)
(* (CognitiveLoadCorrelations).  The operators below follow the same loops *)
(* and gates and return, for each push, the records read on the way to it: *)
(* [exercise |-> index into exercises, evaluations |-> indices into        *)
(* evaluations], in the order of the pushes.                               *)
(***************************************************************************)
Source(exercise, evals) == [exercise |-> exercise, evaluations |-> evals]

RECURSIVE TimePointSources(_, _, _)
TimePointSources(exercises, modeFilter, i) ==
    IF i > Len(exercises) THEN <<>>
    ELSE LET ex       == exercises[i]
             rest     == TimePointSources(exercises, modeFilter, i + 1)
             duration == Rat(ex.solvedAt - ex.displayedAt, 1000)
         IN  IF ex.solvedAt = Undefined \/ ex.solvedAt = 0 \/ ~HasId(ex) THEN rest
             ELSE IF ~PassesMode(ex, modeFilter) THEN rest
             ELSE IF RatLess(duration, Rat(1, 2)) \/ RatLess(Rat(120, 1), duration)
             THEN rest
             ELSE <<Source(i, {})>> \o rest

\* The evaluations whose rating is pushed to ratingMap under an exercise id.
RatingEvaluations(evaluations, modeFilter, exerciseId) ==
    {j \in 1..Len(evaluations) :
        /\ PassesMode(evaluations[j], modeFilter)
        /\ ~(evaluations[j].rating < 1 \/ evaluations[j].rating > 9)
        /\ CountIn(evaluations[j].exerciseIds, exerciseId, 1) > 0}

RECURSIVE RatingPointSources(_, _, _, _)
RatingPointSources(exercises, evaluations, modeFilter, i) ==
    IF i > Len(exercises) THEN <<>>
    ELSE LET ex   == exercises[i]
             rest == RatingPointSources(exercises, evaluations, modeFilter, i + 1)
             from == RatingEvaluations(evaluations, modeFilter, ex.id)
         IN  IF ~HasId(ex) THEN rest
             ELSE IF from = {} THEN rest
             ELSE <<Source(i, from)>> \o rest

RECURSIVE CorrectnessPointSources(_, _, _)
CorrectnessPointSources(exercises, modeFilter, i) ==
    IF i > Len(exercises) THEN <<>>
    ELSE LET ex   == exercises[i]
             rest == CorrectnessPointSources(exercises, modeFilter, i + 1)
         IN  IF ~HasId(ex) \/ ex.keystrokeCount = Undefined THEN rest
             ELSE IF ~PassesMode(ex, modeFilter) THEN rest
             ELSE IF ~EfficiencyInBand(ex) THEN rest
             ELSE <<Source(i, {})>> \o rest

RECURSIVE RatingCorrectnessSourcesOfIds(_, _, _, _)
RatingCorrectnessSourcesOfIds(exercises, evaluations, j, k) ==
    IF k > Len(evaluations[j].exerciseIds) THEN <<>>
    ELSE LET at   == ExerciseById(exercises, evaluations[j].exerciseIds[k])
             rest == RatingCorrectnessSourcesOfIds(exercises, evaluations, j, k + 1)
         IN  IF at = 0 THEN rest
             ELSE IF exercises[at].keystrokeCount = Undefined THEN rest
             ELSE IF ~EfficiencyInBand(exercises[at]) THEN rest
             ELSE <<Source(at, {j})>> \o rest

RECURSIVE RatingCorrectnessSources(_, _, _, _)
RatingCorrectnessSources(exercises, evaluations, modeFilter, j) ==
    IF j > Len(evaluations) THEN <<>>
    ELSE LET rest == RatingCorrectnessSources(exercises, evaluations, modeFilter, j + 1)
         IN  IF ~PassesMode(evaluations[j], modeFilter) THEN rest
             ELSE IF evaluations[j].rating < 1 \/ evaluations[j].rating > 9 THEN rest
             ELSE RatingCorrectnessSourcesOfIds(exercises, evaluations, j, 1) \o rest

\* CognitiveLoadCorrelations timeDataPoints: the pushes of one evaluation,
\* from its k-th exercise id on.
RECURSIVE TimeRatingSourcesOfIds(_, _, _, _)
TimeRatingSourcesOfIds(exercises, evaluations, j, k) ==
    IF k > Len(evaluations[j].exerciseIds) THEN <<>>
    ELSE LET at       == ExerciseById(exercises, evaluations[j].exerciseIds[k])
             rest     == TimeRatingSourcesOfIds(exercises, evaluations, j, k + 1)
             duration == Rat(exercises[at].solvedAt - exercises[at].displayedAt, 1000)
         IN  IF at = 0 THEN rest
             ELSE IF exercises[at].solvedAt = Undefined \/ exercises[at].solvedAt = 0
             THEN rest
             ELSE IF RatLess(duration, Rat(1, 2)) \/ RatLess(Rat(120, 1), duration)
             THEN rest
             ELSE <<Source(at, {j})>> \o rest

RECURSIVE TimeRatingSources(_, _, _, _)
TimeRatingSources(exercises, evaluations, modeFilter, j) ==
    IF j > Len(evaluations) THEN <<>>
    ELSE LET rest == TimeRatingSources(exercises, evaluations, modeFilter, j + 1)
         IN  IF ~PassesMode(evaluations[j], modeFilter) THEN rest
             ELSE IF evaluations[j].rating < 1 \/ evaluations[j].rating > 9 THEN rest
             ELSE TimeRatingSourcesOfIds(exercises, evaluations, j, 1) \o rest

\* The points timeDataPoints pushes: x the duration in seconds, y the rating.
TimeRatingPoints(exercises, evaluations, modeFilter) ==
    LET sources == TimeRatingSources(exercises, evaluations, modeFilter, 1)
    IN  [k \in 1..Len(sources) |->
            LET ex == exercises[sources[k].exercise]
                ev == evaluations[CHOOSE j \in sources[k].evaluations : TRUE]
            IN  DataPoint(Rat(ex.solvedAt - ex.displayedAt, 1000), RatOfInt(ev.rating), FALSE)]

timeDataPoints(exercises, evaluations, modeFilter, outlierSensitivity) ==
    applyOutlierDetection(TimeRatingPoints(exercises, evaluations, modeFilter),
                          outlierSensitivity, TRUE)

\* The difficulty predictor's difficultyVsTime and difficultyVsRating: the
\* optimizer's loops with the component's weights and range, outliers always
\* flagged.
difficultyVsTime(exercises, difficultyWeights, modeFilter, outlierSensitivity) ==
    applyOutlierDetection(
        TimePoints(exercises, difficultyWeights, modeFilter,
                   calculateDifficultyRange(exercises, difficultyWeights, modeFilter), 1),
        outlierSensitivity, TRUE)

difficultyVsRating(exercises, evaluations, difficultyWeights, modeFilter, outlierSensitivity) ==
    applyOutlierDetection(
        RatingPoints(exercises, evaluations, difficultyWeights, modeFilter,
                     calculateDifficultyRange(exercises, difficultyWeights, modeFilter), 1),
        outlierSensitivity, TRUE)

\* SettingsView, the export's isIdealKeystrokes column: "" without a
\* keystroke count.
isIdealKeystrokes(ex) ==
    IF ex.keystrokeCount # Undefined
    THEN (IF ex.keystrokeCount = Len(ReversedDigits(ex.answer)) THEN "true" ELSE "false")
    ELSE ""

calculateCorrelationsForWeights(weights, exercises, evaluations, modeFilter, detectOutliers, outlierSensitivity) ==
    LET range == calculateDifficultyRange(exercises, weights, modeFilter)
        timePointsWithOutliers ==
            applyOutlierDetection(
                TimePoints(exercises, weights, modeFilter, range, 1),
                outlierSensitivity, detectOutliers)
        ratingPointsWithOutliers ==
            applyOutlierDetection(
                RatingPoints(exercises, evaluations, weights, modeFilter, range, 1),
                outlierSensitivity, detectOutliers)
        correctnessPointsWithOutliers ==
            OptimizerCorrectnessPoints(weights, exercises, modeFilter,
                                       detectOutliers, outlierSensitivity)
    IN  [cl          |-> calculateCorrelation(NonOutliers(ratingPointsWithOutliers, 1)),
         time        |-> calculateCorrelation(NonOutliers(timePointsWithOutliers, 1)),
         correctness |-> calculateCorrelation(
                             NonOutliers(correctnessPointsWithOutliers, 1))]

\* for (let d = min; d <= max; d += step) values.push(Math.round(d * 10) / 10)
\* with d, max and step doubles; each pushed value k/10 is carried as k.
RECURSIVE AxisLoop(_, _, _, _)
AxisLoop(d, max, step, values) ==
    IF DoubleLessEq(d, max)
    THEN AxisLoop(DoubleAdd(d, step), max, step,
                  Append(values, MathRound(DoubleTimes(d, 10))))
    ELSE values

AxisValues(range) == AxisLoop(range.min, range.max, range.step, <<>>)

digitsRange ==
    [min |-> DoubleOfRatio(0, 1), max |-> DoubleOfRatio(5, 1), step |-> DoubleOfRatio(2, 10)]

carryoversRange ==
    [min |-> DoubleOfRatio(0, 1), max |-> DoubleOfRatio(10, 1), step |-> DoubleOfRatio(4, 10)]

zerosRange ==
    [min |-> DoubleOfRatio(0, 1), max |-> DoubleOfRatio(5, 1), step |-> DoubleOfRatio(2, 10)]

\* The three arrays gridSearch fills before it searches.
GridDigitsValues == AxisValues(digitsRange)

GridCarryoversValues == AxisValues(carryoversRange)

GridZerosValues == AxisValues(zerosRange)

\* A variant of InitialBestResult whose placeholder score is 0.
InitialBestResultZero ==
    [weights      |-> [digits |-> 10, carryovers |-> 25, zeros |-> 5],
     correlations |-> [cl |-> Null, time |-> Null, correctness |-> Null],
     compositeScore |-> Finite(0, 1)]

InitialBestResult ==
    [weights      |-> [digits |-> 10, carryovers |-> 25, zeros |-> 5],
     correlations |-> [cl |-> Null, time |-> Null, correctness |-> Null],
     compositeScore |-> NegInfinity]

\* The result gridSearch builds for one weight triple.
CandidateResult(weights, exercises, evaluations, modeFilter, detectOutliers, outlierSensitivity) ==
    LET correlations ==
            calculateCorrelationsForWeights(weights, exercises, evaluations,
                                            modeFilter, detectOutliers,
                                            outlierSensitivity)
    IN  [weights        |-> weights,
         correlations   |-> correlations,
         compositeScore |-> calculateCompositeScore(correlations)]

\* A variant of SelectBest in which an equal score also replaces the incumbent.
SelectBestOrEqual(bestResult, candidate) ==
    IF GreaterThan(bestResult.compositeScore, candidate.compositeScore)
    THEN bestResult ELSE candidate

\* A variant of SelectBest in which every candidate replaces the incumbent.
SelectLatest(bestResult, candidate) == candidate

\* if (compositeScore > bestResult.compositeScore) bestResult = candidate
SelectBest(bestResult, candidate) ==
    IF GreaterThan(candidate.compositeScore, bestResult.compositeScore)
    THEN candidate ELSE bestResult

\* A variant of Percentage that reports the fraction itself.
PercentageAsFraction(current, total) ==
    Rat(current \div Gcd(current, total), total \div Gcd(current, total))

\* (currentCombination / totalCombinations) * 100, in lowest terms.
Percentage(current, total) ==
    Rat((current * 100) \div Gcd(current * 100, total), total \div Gcd(current * 100, total))

(***************************************************************************)
(* Inputs of the model: the collections a caller may pass.                 *)
(***************************************************************************)
Exercise(id, a, b, displayedAt, solvedAt, mode, keystrokeCount) ==
    [id |-> id, operandA |-> a, operandB |-> b, answer |-> a + b,
     displayedAt |-> displayedAt, solvedAt |-> solvedAt, mode |-> mode,
     keystrokeCount |-> keystrokeCount]

Evaluation(rating, exerciseIds, mode) ==
    [rating |-> rating, exerciseIds |-> exerciseIds, mode |-> mode]

ExercisePool ==
    << Exercise(1, 345, 78, 1000, 4000, "serious", 3),
       Exercise(2, 1000, 1, 5000, 6000, "serious", 4),
       Exercise(3, 12, 34, 7000, 9000, "serious", 4),
       Exercise(4, 99, 1, 10000, 14000, "trial", 3),
       Exercise(5, 7, 8, 15000, 16000, "serious", 2),
       Exercise(6, 250, 250, 17000, Undefined, "trial", Undefined) >>

EvaluationPool ==
    << Evaluation(4, <<1, 2>>, "serious"),
       Evaluation(8, <<1, 3>>, "serious"),
       Evaluation(6, <<4, 5>>, "trial"),
       Evaluation(0, <<2>>, "serious") >>

MaxExercises == 4

MaxEvaluations == 3

ModeFilters == {"all", "serious", "trial"}

\* Slider positions of the outlier sensitivity, in tenths.
Sensitivities == {10, 15, 30}

\* The collections handed to gridSearch: nothing at all, or the first
\* MaxExercises exercises with the first MaxEvaluations evaluations.
GridInputs ==
    {[exercises |-> <<>>, evaluations |-> <<>>],
     [exercises   |-> SubSeq(ExercisePool, 1, MaxExercises),
      evaluations |-> SubSeq(EvaluationPool, 1, MaxEvaluations)]}

VARIABLES
    pc,                  \* where gridSearch stands: idle, loop, yield, final, done
    exercises, evaluations, modeFilter, detectOutliers, outlierSensitivity,
    onProgress,          \* whether the caller supplied a progress callback
    digitsValues, carryoversValues, zerosValues,
    totalCombinations, currentCombination,
    di, ci, zi,          \* positions of the three nested for-of loops
    bestResult,
    progressCalls,       \* the arguments of every onProgress call so far
    sinceYield,          \* combinations evaluated since gridSearch last suspended
    call                 \* the latest call of a pure function: arguments and result

gridVars == <<pc, exercises, evaluations, modeFilter, detectOutliers,
              outlierSensitivity, onProgress, digitsValues, carryoversValues,
              zerosValues, totalCombinations, currentCombination, di, ci, zi,
              bestResult, progressCalls, sinceYield>>

(***************************************************************************)
(* The settings store and the components that write to it.  The variables  *)
(* below are left alone by gridSearch and by the pure calls.               *)
(***************************************************************************)
VARIABLES
    userSettings,        \* the rows of db.userSettings
    nextSettingsId,      \* the auto-increment key of db.userSettings
    now,                 \* Date.now()
    writers,             \* calls of the settings writers that are in flight
    rejected,            \* per writer, the calls whose promise was rejected
    fulfilled,           \* per writer, the calls whose promise was fulfilled
    settingsRefs,        \* the refs of useUserSettings
    activeUserId,        \* props.activeUserId of the predictor, 0 for null
    difficultyWeights,   \* the predictor's difficultyWeights ref
    isApplyingPersistedWeights,
    persistTimeout,      \* the pending debounce timer of schedulePersist
    loads,               \* calls of loadDifficultyWeights awaiting their read
    session,             \* the refs of the exercise view
    handlers,            \* every handler call of the view so far: its place and locals
    queues,              \* per table, the handlers whose request is pending, in order
    exerciseTable,       \* the rows of db.exercises
    evaluationTable      \* the rows of db.evaluations

settingsVars == <<userSettings, nextSettingsId, now, writers, rejected, fulfilled, settingsRefs>>

predictorVars == <<activeUserId, difficultyWeights, isApplyingPersistedWeights, persistTimeout, loads>>

sessionVars == <<session, handlers, queues, exerciseTable, evaluationTable>>

appVars == <<settingsVars, predictorVars, sessionVars>>

vars == <<gridVars, call, appVars>>

NoCall == [op |-> "none"]

GridIdle ==
    /\ pc = "idle"
    /\ exercises = <<>>
    /\ evaluations = <<>>
    /\ modeFilter = "all"
    /\ detectOutliers = FALSE
    /\ outlierSensitivity = 15
    /\ onProgress = FALSE
    /\ digitsValues = <<>>
    /\ carryoversValues = <<>>
    /\ zerosValues = <<>>
    /\ totalCombinations = 0
    /\ currentCombination = 0
    /\ di = 1 /\ ci = 1 /\ zi = 1
    /\ bestResult = InitialBestResult
    /\ progressCalls = <<>>
    /\ sinceYield = 0

\* DEFAULT_DIFFICULTY_WEIGHTS, in thousandths.
DEFAULT_DIFFICULTY_WEIGHTS == [digits |-> 1000, carryovers |-> 2500, zeros |-> 500]

\* A difficultyWeights field that is undefined, or the settings row missing:
\* every weight read from it is undefined.
NoWeights == [digits |-> Undefined, carryovers |-> Undefined, zeros |-> Undefined]

\* overrides?.digits ?? DEFAULT_DIFFICULTY_WEIGHTS.digits, and so on.
mergeDifficultyWeights(overrides) ==
    [digits     |-> IF overrides.digits = Undefined THEN DEFAULT_DIFFICULTY_WEIGHTS.digits ELSE overrides.digits,
     carryovers |-> IF overrides.carryovers = Undefined THEN DEFAULT_DIFFICULTY_WEIGHTS.carryovers ELSE overrides.carryovers,
     zeros      |-> IF overrides.zeros = Undefined THEN DEFAULT_DIFFICULTY_WEIGHTS.zeros ELSE overrides.zeros]

WriterNames == {"persistDifficultyWeights", "updateGraduallyIncreaseDifficulty", "updateExerciseMode"}

NoTimer == [pending |-> FALSE]

SettingsIdle ==
    /\ userSettings = {}
    /\ nextSettingsId = 1
    /\ now = 1
    /\ writers = <<>>
    /\ rejected = [fn \in WriterNames |-> {}]
    /\ fulfilled = [fn \in WriterNames |-> {}]
    /\ settingsRefs = [graduallyIncreaseDifficulty |-> FALSE,
                       progressiveDifficultyActivatedAt |-> Undefined,
                       exerciseMode |-> "self-paced"]

\* The predictor after setup with no active user: the immediate run of the
\* activeUserId watcher has applied the default weights.
PredictorIdle ==
    /\ activeUserId = 0
    /\ difficultyWeights = mergeDifficultyWeights(NoWeights)
    /\ isApplyingPersistedWeights = FALSE
    /\ persistTimeout = NoTimer
    /\ loads = <<>>

\* The tables of AppDatabase that the exercise view makes requests on.
Stores == {"exercises", "events", "evaluations", "userSettings"}

\* The view after setup with nobody logged in: resetState has run.
SessionIdle ==
    /\ session = [activeUserId          |-> 0,
                  currentExercise       |-> 0,
                  isGeneratingExercise  |-> FALSE,
                  isProcessingSolve     |-> FALSE,
                  evaluationVisible     |-> FALSE,
                  evaluationExerciseIds |-> <<>>,
                  correctAnswerGiven    |-> FALSE,
                  timerInterval         |-> FALSE,
                  promptDisplays        |-> 0]
    /\ handlers = <<>>
    /\ queues = [store \in Stores |-> <<>>]
    /\ exerciseTable = <<>>
    /\ evaluationTable = <<>>

Init == GridIdle /\ call = NoCall /\ SettingsIdle /\ PredictorIdle /\ SessionIdle

\* if (onProgress && currentCombination % 100 === 0): the progress call and
\* the await that follows it share this one condition.
ShouldReport(callback, current) == callback /\ current % 100 = 0

LoopExhausted(d, dv, cv, zv) == d > Len(dv) \/ Len(cv) = 0 \/ Len(zv) = 0

\* gridSearch from its call to the first loop iteration.
GridSearchCall ==
    /\ pc = "idle"
    /\ \E input \in GridInputs, det \in BOOLEAN, cb \in BOOLEAN :
          /\ exercises' = input.exercises
          /\ evaluations' = input.evaluations
          /\ modeFilter' = "all"
          /\ detectOutliers' = det
          /\ outlierSensitivity' = 15
          /\ onProgress' = cb
    /\ digitsValues' = GridDigitsValues
    /\ carryoversValues' = GridCarryoversValues
    /\ zerosValues' = GridZerosValues
    /\ totalCombinations' = Len(digitsValues') * Len(carryoversValues') * Len(zerosValues')
    /\ currentCombination' = 0
    /\ di' = 1 /\ ci' = 1 /\ zi' = 1
    /\ bestResult' = InitialBestResult
    /\ progressCalls' = <<>>
    /\ sinceYield' = 0
    /\ pc' = IF LoopExhausted(1, digitsValues', carryoversValues', zerosValues')
             THEN "final" ELSE "loop"
    /\ UNCHANGED <<call, appVars>>

\* One iteration of the innermost loop body.
EvaluateCombination ==
    /\ pc = "loop"
    /\ LET weights   == [digits     |-> digitsValues[di],
                         carryovers |-> carryoversValues[ci],
                         zeros      |-> zerosValues[zi]]
           candidate == CandidateResult(weights, exercises, evaluations, modeFilter,
                                        detectOutliers, outlierSensitivity)
           current   == currentCombination + 1
           report    == ShouldReport(onProgress, current)
           nextZ     == IF zi < Len(zerosValues) THEN zi + 1 ELSE 1
           nextC     == IF zi < Len(zerosValues) THEN ci
                        ELSE IF ci < Len(carryoversValues) THEN ci + 1 ELSE 1
           nextD     == IF zi < Len(zerosValues) \/ ci < Len(carryoversValues)
                        THEN di ELSE di + 1
       IN  /\ bestResult' = SelectBest(bestResult, candidate)
           /\ currentCombination' = current
           /\ zi' = nextZ /\ ci' = nextC /\ di' = nextD
           /\ progressCalls' =
                  IF report
                  THEN Append(progressCalls,
                              [current    |-> current,
                               total      |-> totalCombinations,
                               percentage |-> Percentage(current, totalCombinations)])
                  ELSE progressCalls
           /\ sinceYield' = IF report THEN 0 ELSE sinceYield + 1
           /\ pc' = IF report THEN "yield"
                    ELSE IF LoopExhausted(nextD, digitsValues, carryoversValues,
                                          zerosValues)
                    THEN "final" ELSE "loop"
    /\ UNCHANGED <<exercises, evaluations, modeFilter, detectOutliers,
                   outlierSensitivity, onProgress, digitsValues, carryoversValues,
                   zerosValues, totalCombinations, call, appVars>>

\* The setTimeout(resolve, 0) task runs and gridSearch continues.
ResumeAfterYield ==
    /\ pc = "yield"
    /\ pc' = IF LoopExhausted(di, digitsValues, carryoversValues, zerosValues)
             THEN "final" ELSE "loop"
    /\ UNCHANGED <<exercises, evaluations, modeFilter, detectOutliers,
                   outlierSensitivity, onProgress, digitsValues, carryoversValues,
                   zerosValues, totalCombinations, currentCombination, di, ci, zi,
                   bestResult, progressCalls, sinceYield, call, appVars>>

\* The final progress update and the return.
GridSearchReturn ==
    /\ pc = "final"
    /\ progressCalls' =
           IF onProgress
           THEN Append(progressCalls,
                       [current    |-> totalCombinations,
                        total      |-> totalCombinations,
                        percentage |-> Rat(100, 1)])
           ELSE progressCalls
    /\ pc' = "done"
    /\ UNCHANGED <<exercises, evaluations, modeFilter, detectOutliers,
                   outlierSensitivity, onProgress, digitsValues, carryoversValues,
                   zerosValues, totalCombinations, currentCombination, di, ci, zi,
                   bestResult, sinceYield, call, appVars>>

Next ==
    \/ GridSearchCall
    \/ EvaluateCombination
    \/ ResumeAfterYield
    \/ GridSearchReturn

Spec == Init /\ [][Next]_vars

(***************************************************************************)
(* Properties of gridSearch                                                *)
(***************************************************************************)
\* Loop-invariant prefixes longer than this are checked only at the return.
PrefixChecked == 25

\* The weight triple enumerated k-th (k from 1): digits outer, carryovers
\* middle, zeros inner.
WeightsOfCombination(k) ==
    LET lc == Len(carryoversValues)
        lz == Len(zerosValues)
    IN  [digits     |-> digitsValues[((k - 1) \div (lc * lz)) + 1],
         carryovers |-> carryoversValues[(((k - 1) \div lz) % lc) + 1],
         zeros      |-> zerosValues[((k - 1) % lz) + 1]]

ResultOfCombination(k) ==
    CandidateResult(WeightsOfCombination(k), exercises, evaluations, modeFilter,
                    detectOutliers, outlierSensitivity)

\* bestResult is the result of the first of the combinations 1..n that has the
\* greatest composite score among them.
BestIsFirstArgMax(n) ==
    \E k \in 1..n :
        /\ WeightsOfCombination(k) = bestResult.weights
        /\ bestResult = ResultOfCombination(k)
        /\ \A j \in 1..n :
              LET score == ResultOfCombination(j).compositeScore
              IN  /\ ~GreaterThan(score, bestResult.compositeScore)
                  /\ j < k => GreaterThan(bestResult.compositeScore, score)

\* C1: gridSearch returns the result of the first enumerated weight triple
\* whose composite score is the maximum over all enumerated triples (an
\* incumbent is replaced only by a strictly greater score), the same holds
\* of the incumbent after each of the first PrefixChecked combinations, and
\* the returned result is never the initial placeholder.
C1_FirstArgMax ==
    /\ pc = "done" =>
          /\ BestIsFirstArgMax(totalCombinations)
          /\ ~bestResult.compositeScore.negInf
          /\ bestResult # InitialBestResult
    /\ (pc \in {"loop", "yield", "final"} /\ currentCombination \in 1..PrefixChecked) =>
          BestIsFirstArgMax(currentCombination)

\* C1 witness: a run over real data has returned a triple other than the
\* first one enumerated.
C1_Witness ==
    /\ pc = "done"
    /\ exercises # <<>>
    /\ bestResult.weights # WeightsOfCombination(1)

\* C3: gridSearch over an empty exercise collection and an empty evaluation
\* collection returns composite score 0, weights {0, 0, 0} and three null
\* correlations: that result is the incumbent from the first combination on
\* and is what the run returns.
C3_EmptyInput ==
    (/\ exercises = <<>>
     /\ evaluations = <<>>
     /\ pc = "done" \/ currentCombination >= 1) =>
        /\ bestResult.weights = [digits |-> 0, carryovers |-> 0, zeros |-> 0]
        /\ bestResult.correlations = [cl |-> Null, time |-> Null, correctness |-> Null]
        /\ ~bestResult.compositeScore.negInf
        /\ bestResult.compositeScore.n = 0

\* C3 witness: a run over empty collections has returned.
C3_Witness == pc = "done" /\ exercises = <<>> /\ evaluations = <<>> /\ detectOutliers

\* The axis 0, step, 2*step, ... with n values, in tenths.
FullAxis(step10, n) == [i \in 1..n |-> (i - 1) * step10]

\* C4: a run enumerates the full product of digits 0..5.0 by 0.2, carryovers
\* 0..10.0 by 0.4 and zeros 0..5.0 by 0.2, that is 26 * 26 * 26 = 17576
\* combinations with both endpoints of every axis, and reports that total.
C4_FullGrid ==
    pc # "idle" =>
        /\ digitsValues = FullAxis(2, 26)
        /\ carryoversValues = FullAxis(4, 26)
        /\ zerosValues = FullAxis(2, 26)
        /\ totalCombinations = 17576
        /\ pc = "done" => currentCombination = 17576

\* C5: with or without a progress callback, gridSearch never evaluates more
\* than 100 combinations without suspending in between.
C5_YieldsEvery100 == sinceYield <= 100

\* C6: with a callback, onProgress has been called once for each completed
\* multiple of 100, with strictly increasing current, always with the grid
\* size as total and percentage = current / total * 100; when gridSearch has
\* returned, one more call was made, with current = total and percentage 100.
C6_ProgressCalls ==
    LET n        == Len(progressCalls)
        periodic == IF pc = "done" THEN n - 1 ELSE n
    IN  /\ ~onProgress => n = 0
        /\ (onProgress /\ pc # "idle") =>
              /\ periodic = currentCombination \div 100
              /\ \A i \in 1..periodic : progressCalls[i].current = 100 * i
              /\ \A i \in 1..n :
                    /\ progressCalls[i].total = totalCombinations
                    /\ RatEq(progressCalls[i].percentage,
                             Rat(progressCalls[i].current * 100, totalCombinations))
              /\ \A i \in 1..(n - 1) :
                    progressCalls[i].current < progressCalls[i + 1].current
              /\ pc = "done" =>
                    /\ progressCalls[n].current = totalCombinations
                    /\ progressCalls[n].percentage = Rat(100, 1)

\* C6 witness: a run with a callback has returned after periodic calls.
C6_Witness == pc = "done" /\ onProgress /\ Len(progressCalls) > 100

(***************************************************************************)
(* Calls of the outlier functions on their own                             *)
(***************************************************************************)
MaxValues == 5

MaxPoints == 4

\* Values offered to detectOutliersIQR.
ValuePool == {Rat(1, 1), Rat(2, 1), Rat(3, 1), Rat(4, 1), Rat(100, 1), Rat(5, 2)}

ValueLists == UNION {[1..n -> ValuePool] : n \in 0..MaxValues}

\* Coordinates offered to applyOutlierDetection; the flags a list arrives
\* with are all set or all clear.
XPool == {Rat(1, 1), Rat(2, 1), Rat(100, 1)}

YPool == {Rat(0, 1), Rat(1, 1)}

PointLists ==
    UNION {{[i \in 1..n |-> DataPoint(xs[i], ys[i], flag)] :
               xs \in [1..n -> XPool], ys \in [1..n -> YPool], flag \in BOOLEAN} :
           n \in 0..MaxPoints}

DetectOutliersCall ==
    /\ call = NoCall
    /\ \E values \in ValueLists, sensitivity \in Sensitivities :
          call' = [op          |-> "detectOutliersIQR",
                   values      |-> values,
                   sensitivity |-> sensitivity,
                   result      |-> detectOutliersIQR(values, sensitivity),
                   reordered   |->
                       DetectOutliersInts(ScaledInts(values), sensitivity).values
                           # ScaledInts(values)]
    /\ UNCHANGED <<gridVars, appVars>>

\* applyOutlierDetection, and the same call again on what it returned.
ApplyOutlierDetectionCall ==
    /\ call = NoCall
    /\ \E points \in PointLists, sensitivity \in Sensitivities, enabled \in BOOLEAN :
          call' = [op          |-> "applyOutlierDetection",
                   points      |-> points,
                   sensitivity |-> sensitivity,
                   enabled     |-> enabled,
                   result      |-> applyOutlierDetection(points, sensitivity, enabled),
                   inputAfter  |-> InputAfterCall(points, sensitivity, enabled),
                   again       |->
                       applyOutlierDetection(
                           applyOutlierDetection(points, sensitivity, enabled),
                           sensitivity, enabled)]
    /\ UNCHANGED <<gridVars, appVars>>

NextOutlier == DetectOutliersCall \/ ApplyOutlierDetectionCall

SpecOutlier == Init /\ [][NextOutlier]_vars

\* a - b, a * k / 10 and the k-th smallest of a list of rationals, computed
\* without sorting.
RatSub(a, b) == Rat(a.n * b.d - b.n * a.d, a.d * b.d)

RatTenths(a, k) == Rat(a.n * k, a.d * 10)

OrderStatistic(values, k) ==
    CHOOSE v \in {values[i] : i \in 1..Len(values)} :
        /\ Cardinality({i \in 1..Len(values) : RatLess(values[i], v)}) <= k
        /\ Cardinality({i \in 1..Len(values) : ~RatLess(v, values[i])}) > k

\* The indices the IQR rule names for a list of at least 4 values.
OutsideFences(values, sensitivity10) ==
    LET n   == Len(values)
        q1  == OrderStatistic(values, (n * 25) \div 100)
        q3  == OrderStatistic(values, (n * 75) \div 100)
        reach == RatTenths(RatSub(q3, q1), sensitivity10)
    IN  {i \in 0..(n - 1) :
            \/ RatLess(values[i + 1], RatSub(q1, reach))
            \/ RatLess(RatSub(q3, RatSub(Rat(0, 1), reach)), values[i + 1])}

\* C8: detectOutliersIQR returns no index for fewer than 4 values and
\* otherwise exactly the original indices of the values strictly below
\* q1 - s*(q3 - q1) or strictly above q3 + s*(q3 - q1), q1 and q3 being the
\* elements at positions floor(0.25*n) and floor(0.75*n) of the ascending
\* order; the input list is not reordered.
C8_DetectOutliersIQR ==
    call.op = "detectOutliersIQR" =>
        /\ Len(call.values) < 4 => call.result = {}
        /\ Len(call.values) >= 4 =>
              call.result = OutsideFences(call.values, call.sensitivity)
        /\ ~call.reordered

\* C8 witness: a call on an unsorted list flagged one value and not another.
C8_Witness ==
    /\ call.op = "detectOutliersIQR"
    /\ call.result # {}
    /\ \E i \in 1..(Len(call.values) - 1) : RatLess(call.values[i + 1], call.values[i])

\* C9 as stated: [1,2,3,4] has no outlier for any s >= 1.5, and [1,2,3,100]
\* with s = 1.5 has exactly the outlier index 3.
C9_Examples ==
    call.op = "detectOutliersIQR" =>
        /\ (call.values = <<Rat(1, 1), Rat(2, 1), Rat(3, 1), Rat(4, 1)>>
            /\ call.sensitivity >= 15) => call.result = {}
        /\ (call.values = <<Rat(1, 1), Rat(2, 1), Rat(3, 1), Rat(100, 1)>>
            /\ call.sensitivity = 15) => call.result = {3}

\* C9 amended: [1,2,3,4] has no outlier for any s >= 1.5, and [1,2,3,100]
\* with s = 1.5 has none either (q1 = 2, q3 = 100, upper fence 247), while
\* [1,2,3,4,100] with s = 1.5 has exactly the outlier index 4.
C9_ExamplesAmended ==
    call.op = "detectOutliersIQR" =>
        /\ (call.values = <<Rat(1, 1), Rat(2, 1), Rat(3, 1), Rat(4, 1)>>
            /\ call.sensitivity >= 15) => call.result = {}
        /\ (call.values = <<Rat(1, 1), Rat(2, 1), Rat(3, 1), Rat(100, 1)>>
            /\ call.sensitivity = 15) => call.result = {}
        /\ (call.values = <<Rat(1, 1), Rat(2, 1), Rat(3, 1), Rat(4, 1), Rat(100, 1)>>
            /\ call.sensitivity = 15) => call.result = {4}

\* C9 witness: detectOutliersIQR([1,2,3,100], 1.5) has been called.
C9_Witness ==
    /\ call.op = "detectOutliersIQR"
    /\ call.values = <<Rat(1, 1), Rat(2, 1), Rat(3, 1), Rat(100, 1)>>
    /\ call.sensitivity = 15

\* C10: applyOutlierDetection returns the points in the same order, point i
\* flagged exactly when detection is enabled, there are at least 4 points and
\* detectOutliersIQR flags index i on the x-values or on the y-values; so
\* with detection off or fewer than 4 points every flag is false whatever
\* the input carried, and repeating the call gives the same result.
C10_ApplyOutlierDetection ==
    call.op = "applyOutlierDetection" =>
        /\ Len(call.result) = Len(call.points)
        /\ \A i \in 1..Len(call.points) :
              /\ call.result[i].x = call.points[i].x
              /\ call.result[i].y = call.points[i].y
              /\ call.result[i].isOutlier <=>
                    /\ call.enabled
                    /\ Len(call.points) >= 4
                    /\ \/ (i - 1) \in detectOutliersIQR(XValues(call.points),
                                                        call.sensitivity)
                       \/ (i - 1) \in detectOutliersIQR(YValues(call.points),
                                                        call.sensitivity)
        /\ (~call.enabled \/ Len(call.points) < 4) =>
              \A i \in 1..Len(call.result) : ~call.result[i].isOutlier
        /\ call.again = call.result

\* C10 witness: a disabled call has cleared flags the input carried, and an
\* enabled one has flagged a point on account of its y value alone.
C10_Witness ==
    /\ call.op = "applyOutlierDetection"
    /\ \/ /\ ~call.enabled
          /\ Len(call.points) >= 4
          /\ call.points[1].isOutlier
       \/ /\ call.enabled
          /\ \E i \in 1..Len(call.points) :
                /\ call.result[i].isOutlier
                /\ (i - 1) \notin detectOutliersIQR(XValues(call.points),
                                                    call.sensitivity)

(***************************************************************************)
(* Calls of the composite score and of the correctness point builders      *)
(***************************************************************************)
\* Correlations handed to calculateCompositeScore, in units of
\* 1/CorrelationScale.
CorrelationPool ==
    {Null, Num(-CorrelationScale), Num(-12000), Num(0), Num(1), Num(20000),
     Num(CorrelationScale)}

WeightPool ==
    {[digits |-> 10, carryovers |-> 25, zeros |-> 5],
     [digits |-> 0, carryovers |-> 0, zeros |-> 0],
     [digits |-> 2, carryovers |-> 4, zeros |-> 48]}

CompositeScoreCall ==
    /\ call = NoCall
    /\ \E cl \in CorrelationPool, time \in CorrelationPool,
          correctness \in CorrelationPool :
          call' = [op           |-> "calculateCompositeScore",
                   correlations |-> [cl |-> cl, time |-> time,
                                     correctness |-> correctness],
                   result       |-> calculateCompositeScore(
                                        [cl |-> cl, time |-> time,
                                         correctness |-> correctness])]
    /\ UNCHANGED <<gridVars, appVars>>

\* The optimizer builds and flags its correctness points for one weight
\* triple.
OptimizerCorrectnessCall ==
    /\ call = NoCall
    /\ \E n \in 0..MaxExercises, weights \in WeightPool, mf \in ModeFilters,
          det \in BOOLEAN, sensitivity \in Sensitivities :
          call' = [op          |-> "correctnessPoints",
                   site        |-> "calculateCorrelationsForWeights",
                   sensitivity |-> sensitivity,
                   points      |->
                       CorrectnessPoints(
                           SubSeq(ExercisePool, 1, n), weights, mf,
                           calculateDifficultyRange(SubSeq(ExercisePool, 1, n),
                                                    weights, mf), 1),
                   result      |->
                       OptimizerCorrectnessPoints(weights, SubSeq(ExercisePool, 1, n),
                                                  mf, det, sensitivity)]
    /\ UNCHANGED <<gridVars, appVars>>

\* The difficulty predictor recomputes difficultyVsCorrectness.
PredictorCorrectnessCall ==
    /\ call = NoCall
    /\ \E n \in 0..MaxExercises, weights \in WeightPool, mf \in ModeFilters,
          sensitivity \in Sensitivities :
          call' = [op          |-> "correctnessPoints",
                   site        |-> "difficultyVsCorrectness",
                   sensitivity |-> sensitivity,
                   points      |->
                       CorrectnessPoints(
                           SubSeq(ExercisePool, 1, n), weights, mf,
                           calculateDifficultyRange(SubSeq(ExercisePool, 1, n),
                                                    weights, mf), 1),
                   result      |->
                       difficultyVsCorrectness(SubSeq(ExercisePool, 1, n), weights,
                                               mf, sensitivity)]
    /\ UNCHANGED <<gridVars, appVars>>

\* CognitiveLoadCorrelations recomputes correctnessDataPoints.
CognitiveLoadCorrectnessCall ==
    /\ call = NoCall
    /\ \E n \in 0..MaxExercises, m \in 0..MaxEvaluations, mf \in ModeFilters,
          sensitivity \in Sensitivities :
          call' = [op          |-> "correctnessPoints",
                   site        |-> "correctnessDataPoints",
                   sensitivity |-> sensitivity,
                   points      |->
                       RatingCorrectnessPoints(SubSeq(ExercisePool, 1, n),
                                               SubSeq(EvaluationPool, 1, m), mf, 1),
                   result      |->
                       correctnessDataPoints(SubSeq(ExercisePool, 1, n),
                                             SubSeq(EvaluationPool, 1, m), mf,
                                             sensitivity)]
    /\ UNCHANGED <<gridVars, appVars>>

(***************************************************************************)
(* The difficulty predictor's success-rate buckets.  A row of the result   *)
(* is [bucket, successRate, totalCount, correctCount], bucket being the    *)
(* index i of the label `${i * 5}-${(i + 1) * 5}`.                         *)
(***************************************************************************)
\* A variant of the bucket index without the cap at the last bucket.
BucketIndexUncapped(x) == x.n \div (5 * x.d)

\* Math.min(Math.floor(point.x / 5), 19)
BucketIndex(x) == MinInt(x.n \div (5 * x.d), 19)

\* The rows of the buckets i..19 that hold a point.
RECURSIVE BucketRows(_, _)
BucketRows(kept, i) ==
    IF i > 19 THEN <<>>
    ELSE LET in      == {k \in 1..Len(kept) : BucketIndex(kept[k].x) = i}
             correct == {k \in in : kept[k].y = RatOfInt(1)}
         IN  (IF in # {}
              THEN <<[bucket       |-> i,
                      successRate  |-> Rat(Cardinality(correct) * 100, Cardinality(in)),
                      totalCount   |-> Cardinality(in),
                      correctCount |-> Cardinality(correct)]>>
              ELSE <<>>)
             \o BucketRows(kept, i + 1)

\* difficultyBuckets over the points of difficultyVsCorrectness.  A point
\* whose index is not one of the 20 initialised keys makes buckets.get return
\* undefined and bucket.total++ throw a TypeError.
difficultyBuckets(points) ==
    LET kept == NonOutliers(points, 1)
    IN  IF \E k \in 1..Len(kept) : BucketIndex(kept[k].x) \notin 0..19
        THEN [threw |-> TRUE, rows |-> <<>>]
        ELSE [threw |-> FALSE, rows |-> BucketRows(kept, 0)]

\* Exercises on the edges of the solve-time gate (500 ms, 499 ms, 120000 ms,
\* 120001 ms) and of the keystroke band (k = L, 5L, 5L + 1, L - 1), and an
\* evaluation of all four.
BoundaryExercisePool ==
    << Exercise(11, 5, 6, 1000, 1500, "serious", 2),
       Exercise(12, 5, 6, 1000, 1499, "serious", 10),
       Exercise(13, 40, 2, 2000, 122000, "trial", 11),
       Exercise(14, 40, 2, 2000, 122001, "trial", 1) >>

BoundaryEvaluationPool == << Evaluation(5, <<11, 12, 13, 14>>, "serious") >>

\* The runs of consecutive elements of a sequence, the empty one included.
Runs(pool) == {SubSeq(pool, lo, hi) : lo \in 1..(Len(pool) + 1), hi \in 0..Len(pool)}

Prefixes(pool) == {SubSeq(pool, 1, n) : n \in 0..Len(pool)}

ExerciseRuns == Runs(ExercisePool)

\* The collections handed to the point builders.
PointSetInputs ==
    {[exercises |-> exs, evaluations |-> evs] :
        exs \in ExerciseRuns, evs \in Prefixes(EvaluationPool)}
    \cup {[exercises |-> exs, evaluations |-> evs] :
        exs \in Runs(BoundaryExercisePool), evs \in Prefixes(BoundaryEvaluationPool)}

\* The difficulty predictor recomputes difficultyBuckets.
DifficultyBucketsCall ==
    /\ call = NoCall
    /\ \E input \in PointSetInputs, weights \in WeightPool, mf \in ModeFilters,
          sensitivity \in Sensitivities :
          LET points == difficultyVsCorrectness(input.exercises, weights, mf, sensitivity)
          IN  call' = [op     |-> "difficultyBuckets",
                       points |-> points,
                       result |-> difficultyBuckets(points)]
    /\ UNCHANGED <<gridVars, appVars>>

PointSet(metric, points, sources) ==
    [metric |-> metric, points |-> points, sources |-> sources]

\* The optimizer evaluates one weight triple.
OptimizerPointSetsCall ==
    /\ call = NoCall
    /\ \E input \in PointSetInputs, weights \in WeightPool, mf \in ModeFilters,
          det \in BOOLEAN :
          LET exs   == input.exercises
              evs   == input.evaluations
              range == calculateDifficultyRange(exs, weights, mf)
          IN  call' = [op          |-> "pointSets",
                       site        |-> "calculateCorrelationsForWeights",
                       exercises   |-> exs,
                       evaluations |-> evs,
                       modeFilter  |-> mf,
                       sets        |->
                         << PointSet("difficulty vs time",
                                     applyOutlierDetection(
                                         TimePoints(exs, weights, mf, range, 1), 15, det),
                                     TimePointSources(exs, mf, 1)),
                            PointSet("difficulty vs rating",
                                     applyOutlierDetection(
                                         RatingPoints(exs, evs, weights, mf, range, 1),
                                         15, det),
                                     RatingPointSources(exs, evs, mf, 1)),
                            PointSet("difficulty vs correctness",
                                     OptimizerCorrectnessPoints(weights, exs, mf, det, 15),
                                     CorrectnessPointSources(exs, mf, 1)) >>,
                       result      |->
                           calculateCorrelationsForWeights(weights, exs, evs, mf, det, 15)]
    /\ UNCHANGED <<gridVars, appVars>>

\* The difficulty predictor recomputes its three point sets.
PredictorPointSetsCall ==
    /\ call = NoCall
    /\ \E input \in PointSetInputs, weights \in WeightPool, mf \in ModeFilters :
          LET exs == input.exercises
              evs == input.evaluations
          IN  call' = [op          |-> "pointSets",
                       site        |-> "DifficultyPredictor",
                       exercises   |-> exs,
                       evaluations |-> evs,
                       modeFilter  |-> mf,
                       sets        |->
                         << PointSet("difficulty vs time",
                                     difficultyVsTime(exs, weights, mf, 15),
                                     TimePointSources(exs, mf, 1)),
                            PointSet("difficulty vs rating",
                                     difficultyVsRating(exs, evs, weights, mf, 15),
                                     RatingPointSources(exs, evs, mf, 1)),
                            PointSet("difficulty vs correctness",
                                     difficultyVsCorrectness(exs, weights, mf, 15),
                                     CorrectnessPointSources(exs, mf, 1)) >>]
    /\ UNCHANGED <<gridVars, appVars>>

\* CognitiveLoadCorrelations recomputes its two point sets.
CognitiveLoadPointSetsCall ==
    /\ call = NoCall
    /\ \E input \in PointSetInputs, mf \in ModeFilters :
          LET exs == input.exercises
              evs == input.evaluations
          IN  call' = [op          |-> "pointSets",
                       site        |-> "CognitiveLoadCorrelations",
                       exercises   |-> exs,
                       evaluations |-> evs,
                       modeFilter  |-> mf,
                       sets        |->
                         << PointSet("rating vs correctness",
                                     correctnessDataPoints(exs, evs, mf, 15),
                                     RatingCorrectnessSources(exs, evs, mf, 1)),
                            PointSet("time vs rating",
                                     timeDataPoints(exs, evs, mf, 15),
                                     TimeRatingSources(exs, evs, mf, 1)) >>]
    /\ UNCHANGED <<gridVars, appVars>>

NextScore ==
    \/ CompositeScoreCall
    \/ OptimizerCorrectnessCall
    \/ PredictorCorrectnessCall
    \/ CognitiveLoadCorrectnessCall
    \/ OptimizerPointSetsCall
    \/ PredictorPointSetsCall
    \/ CognitiveLoadPointSetsCall
    \/ DifficultyBucketsCall

SpecScore == Init /\ [][NextScore]_vars

\* The non-null entries of a correlation triple as calculateCompositeScore
\* counts them: cl and time signed, correctness by its absolute value.
CountedEntries(correlations) ==
    (IF correlations.cl.null THEN <<>> ELSE <<correlations.cl.v>>)
    \o (IF correlations.time.null THEN <<>> ELSE <<correlations.time.v>>)
    \o (IF correlations.correctness.null THEN <<>>
        ELSE <<IF correlations.correctness.v < 0 THEN -correlations.correctness.v
               ELSE correlations.correctness.v>>)

\* C2: calculateCompositeScore returns the arithmetic mean of the non-null
\* correlations, cl and time signed and correctness in absolute value, and
\* the number 0 when all three are null.
C2_CompositeScore ==
    call.op = "calculateCompositeScore" =>
        LET counted == CountedEntries(call.correlations)
        IN  /\ ~call.result.negInf
            /\ call.result.d > 0
            /\ counted = <<>> => call.result.n = 0
            /\ counted # <<>> =>
                  call.result.n * Len(counted) = SumSeq(counted, 1) * call.result.d

\* C2 witness: a call with a null entry and a negative correctness.
C2_Witness ==
    /\ call.op = "calculateCompositeScore"
    /\ call.correlations.cl.null
    /\ ~call.correlations.time.null
    /\ ~call.correlations.correctness.null
    /\ call.correlations.correctness.v < 0

\* C7: at each of the three sites that build correctness points, a point is
\* flagged only if detectOutliersIQR flags its index on the x-values.
C7_XValuesOnly ==
    call.op = "correctnessPoints" =>
        \A i \in 1..Len(call.result) :
            call.result[i].isOutlier =>
                (i - 1) \in detectOutliersIQR(XValues(call.points), call.sensitivity)

\* C7 for the two chart components alone.
C7_ChartSitesXValuesOnly ==
    (call.op = "correctnessPoints" /\ call.site # "calculateCorrelationsForWeights") =>
        \A i \in 1..Len(call.result) :
            call.result[i].isOutlier <=>
                (i - 1) \in detectOutliersIQR(XValues(call.points), call.sensitivity)

(***************************************************************************)
(* The statistics and difficulty functions called on their own: one call   *)
(* per behaviour, its arguments and its result kept in call.               *)
(***************************************************************************)
MaxCorrelationPoints == 3

\* Values a point can hold: 0.6 and 1.3 are durations of 600 ms and 1300 ms.
StatXPool == {Rat(0, 1), Rat(10, 1), Rat(3, 5)}

StatYPool == {Rat(3, 5), Rat(13, 10)}

StatPointLists ==
    UNION {[1..n -> {DataPoint(x, y, FALSE) : x \in StatXPool, y \in StatYPool}] :
              n \in 0..MaxCorrelationPoints}

CorrelationCall ==
    /\ call = NoCall
    /\ \E points \in StatPointLists :
          call' = [op     |-> "calculateCorrelation",
                   points |-> points,
                   exact  |-> calculateCorrelation(points),
                   result |-> calculateCorrelationDoubles(points)]
    /\ UNCHANGED <<gridVars, appVars>>

AllEqual(values) == \A i, j \in 1..Len(values) : RatEq(values[i], values[j])

C11_ExactArithmetic ==
    call.op = "calculateCorrelation" =>
        (call.exact.null <=> \/ Len(call.points) < 2
                             \/ AllEqual(XValues(call.points))
                             \/ AllEqual(YValues(call.points)))

MaxOperand == 40

\* Operands: the small numbers and some of more digits, the spec's examples
\* among them.
OperandPool == (0..MaxOperand) \cup {78, 95, 99, 345, 999, 1000, 5005, 99999}

CarryoversCall ==
    /\ call = NoCall
    /\ \E a \in OperandPool, b \in OperandPool :
          call' = [op            |-> "countCarryovers",
                   operandA      |-> a,
                   operandB      |-> b,
                   result        |-> countCarryovers(a, b),
                   swapped       |-> countCarryovers(b, a),
                   digits        |-> countTotalDigits(a, b),
                   digitsSwapped |-> countTotalDigits(b, a)]
    /\ UNCHANGED <<gridVars, appVars>>

DifficultyScoreCall ==
    /\ call = NoCall
    /\ \E a \in OperandPool, b \in OperandPool, weights \in WeightPool :
          call' = [op       |-> "calculateDifficultyScore",
                   operandA |-> a,
                   operandB |-> b,
                   weights  |-> weights,
                   zeros    |-> countZeros(a, b),
                   result   |-> calculateDifficultyScore(
                                    Exercise(1, a, b, 1000, 2000, "serious", Undefined),
                                    weights)]
    /\ UNCHANGED <<gridVars, appVars>>

\* The number of decimal digits of n.
NumDigits(n) == CHOOSE k \in 1..9 : n < 10 ^ k /\ (k = 1 \/ n >= 10 ^ (k - 1))

\* The digit of n at position i, position 1 being the least significant; 0
\* beyond the digits of n.
DigitAt(n, i) == (n \div (10 ^ (i - 1))) % 10

\* The positions that carry: position i carries when its two digits and the
\* carry of position i - 1 sum to 10 or more.
CarryPositions(a, b) ==
    LET maxLen == MaxInt(NumDigits(a), NumDigits(b))
        carries[i \in 0..maxLen] ==
            /\ i >= 1
            /\ DigitAt(a, i) + DigitAt(b, i) + (IF carries[i - 1] THEN 1 ELSE 0) >= 10
    IN  {i \in 1..maxLen : carries[i]}

ZeroPositions(n) == {i \in 1..NumDigits(n) : DigitAt(n, i) = 0}

\* C12: countCarryovers(a, b) is the number of positions, from the least
\* significant digit over max(len(a), len(b)) positions, whose digits plus
\* the carry of the previous position sum to 10 or more; (345, 78) gives 2
\* and (1000, 1) gives 0.
C12_CountCarryovers ==
    call.op = "countCarryovers" =>
        /\ call.result = Cardinality(CarryPositions(call.operandA, call.operandB))
        /\ (call.operandA = 345 /\ call.operandB = 78) => call.result = 2
        /\ (call.operandA = 1000 /\ call.operandB = 1) => call.result = 0

\* C12 witness: a carry that exists only because the position before it
\* carried, past the digits of the shorter operand.
C12_Witness ==
    /\ call.op = "countCarryovers"
    /\ call.operandA = 95
    /\ call.operandB = 5
    /\ call.result = 2

\* C13: calculateDifficultyScore is weights.digits times the digits of both
\* operands plus weights.carryovers times the carryovers minus weights.zeros
\* times the number of 0 digits, the zero count being stored non-positive;
\* with the default weights (345, 78) scores 10.0 and (1000, 1) scores 3.5.
C13_DifficultyScore ==
    call.op = "calculateDifficultyScore" =>
        LET a == call.operandA
            b == call.operandB
            w == call.weights
            zeroDigits == Cardinality(ZeroPositions(a)) + Cardinality(ZeroPositions(b))
        IN  /\ call.zeros <= 0
            /\ call.zeros = -zeroDigits
            /\ call.result = w.digits * (NumDigits(a) + NumDigits(b))
                             + w.carryovers * Cardinality(CarryPositions(a, b))
                             - w.zeros * zeroDigits
            /\ (w = [digits |-> 10, carryovers |-> 25, zeros |-> 5] /\ a = 345 /\ b = 78)
                   => call.result = Tenths(10)
            /\ (w = [digits |-> 10, carryovers |-> 25, zeros |-> 5] /\ a = 1000 /\ b = 1)
                   => call.result = 35

\* C13 witness: the second example, where the zeros lower the score.
C13_Witness ==
    /\ call.op = "calculateDifficultyScore"
    /\ call.weights = [digits |-> 10, carryovers |-> 25, zeros |-> 5]
    /\ call.operandA = 1000
    /\ call.operandB = 1
    /\ call.zeros = -3
    /\ call.result = 35

\* C14: countCarryovers and countTotalDigits do not depend on the order of
\* the operands.
C14_Commutative ==
    call.op = "countCarryovers" =>
        /\ call.result = call.swapped
        /\ call.digits = call.digitsSwapped

\* C14 witness: operands of different lengths with a carry.
C14_Witness ==
    /\ call.op = "countCarryovers"
    /\ NumDigits(call.operandA) < NumDigits(call.operandB)
    /\ call.result > 0
    /\ call.operandA # call.operandB

DifficultyRangeCall ==
    /\ call = NoCall
    /\ \E exs \in ExerciseRuns, weights \in WeightPool, mf \in ModeFilters :
          call' = [op         |-> "calculateDifficultyRange",
                   exercises  |-> exs,
                   weights    |-> weights,
                   modeFilter |-> mf,
                   result     |-> calculateDifficultyRange(exs, weights, mf)]
    /\ UNCHANGED <<gridVars, appVars>>

\* Bounds of a range, in tenths.
RangeBoundPool == {-10, 0, 35, 100, 1000}

NormalizeDifficultyCall ==
    /\ call = NoCall
    /\ \E min \in RangeBoundPool, max \in RangeBoundPool :
          /\ min < max
          /\ call' = [op    |-> "normalizeDifficulty",
                      range |-> [min |-> min, max |-> max],
                      atMin |-> normalizeDifficulty(min, [min |-> min, max |-> max]),
                      atMax |-> normalizeDifficulty(max, [min |-> min, max |-> max])]
    /\ UNCHANGED <<gridVars, appVars>>

\* The raw scores of the exercises whose mode passes the filter.
FilteredScores(exs, weights, mf) ==
    {calculateDifficultyScore(exs[i], weights) :
        i \in {j \in 1..Len(exs) : mf = "all" \/ exs[j].mode = mf}}

\* C15: calculateDifficultyRange returns {0, 100} when no exercise passes the
\* mode filter, {s - 1, s + 1} when every filtered exercise has the raw score
\* s, and otherwise the minimum and maximum raw score; max > min always.
C15_DifficultyRange ==
    call.op = "calculateDifficultyRange" =>
        LET scores == FilteredScores(call.exercises, call.weights, call.modeFilter)
            range  == call.result
        IN  /\ range.max > range.min
            /\ scores = {} => range = [min |-> 0, max |-> Tenths(100)]
            /\ \A s \in scores :
                  scores = {s} => range = [min |-> s - Tenths(1), max |-> s + Tenths(1)]
            /\ Cardinality(scores) >= 2 =>
                  /\ range.min \in scores
                  /\ range.max \in scores
                  /\ \A s \in scores : range.min <= s /\ s <= range.max

\* C15 witness: several filtered exercises with one and the same raw score,
\* under a filter that drops an exercise.
C15_Witness ==
    /\ call.op = "calculateDifficultyRange"
    /\ call.modeFilter = "serious"
    /\ \E i \in 1..Len(call.exercises) : call.exercises[i].mode = "trial"
    /\ Cardinality({i \in 1..Len(call.exercises) : call.exercises[i].mode = "serious"}) >= 2
    /\ Cardinality(FilteredScores(call.exercises, call.weights, call.modeFilter)) = 1
    /\ call.result.max = call.result.min + Tenths(2)

\* C16: for a range with min < max, normalizeDifficulty maps range.min to 0
\* and range.max to 100.
C16_NormalizeEndpoints ==
    call.op = "normalizeDifficulty" =>
        /\ call.atMin.d # 0
        /\ call.atMax.d # 0
        /\ RatEq(call.atMin, Rat(0, 1))
        /\ RatEq(call.atMax, Rat(100, 1))

\* C16 witness: a range that does not start at 0.
C16_Witness ==
    /\ call.op = "normalizeDifficulty"
    /\ call.range = [min |-> 35, max |-> 100]
    /\ RatEq(call.atMax, Rat(100, 1))

NextStats ==
    \/ CorrelationCall
    \/ CarryoversCall
    \/ DifficultyScoreCall
    \/ DifficultyRangeCall
    \/ NormalizeDifficultyCall

SpecStats == Init /\ [][NextStats]_vars

(***************************************************************************)
(* The point sets and the records they come from.                          *)
(***************************************************************************)
SolveTimeMs(ex) == ex.solvedAt - ex.displayedAt

\* C17: every point of the three difficulty-paired point sets built by
\* calculateCorrelationsForWeights has its x within [0, 100].
C17_NormalizedWithinRange ==
    (call.op = "pointSets" /\ call.site = "calculateCorrelationsForWeights") =>
        \A s \in 1..Len(call.sets) : \A k \in 1..Len(call.sets[s].points) :
            /\ ~RatLess(call.sets[s].points[k].x, Rat(0, 1))
            /\ ~RatLess(Rat(100, 1), call.sets[s].points[k].x)

\* C17 for the two point sets whose exercises pass the mode filter.
C17_TimeAndCorrectnessWithinRange ==
    (call.op = "pointSets" /\ call.site = "calculateCorrelationsForWeights") =>
        \A s \in {1, 3} : \A k \in 1..Len(call.sets[s].points) :
            /\ ~RatLess(call.sets[s].points[k].x, Rat(0, 1))
            /\ ~RatLess(Rat(100, 1), call.sets[s].points[k].x)

\* C18: under a mode filter other than 'all', no point of any metric pair
\* comes from an exercise or an evaluation of another mode.
C18_ModeFilter ==
    (call.op = "pointSets" /\ call.modeFilter # "all") =>
        \A s \in 1..Len(call.sets) : \A k \in 1..Len(call.sets[s].sources) :
            LET source == call.sets[s].sources[k]
            IN  /\ call.exercises[source.exercise].mode = call.modeFilter
                /\ \A j \in source.evaluations :
                      call.evaluations[j].mode = call.modeFilter

\* C18 for the evaluations alone.
C18_EvaluationModeFilter ==
    (call.op = "pointSets" /\ call.modeFilter # "all") =>
        \A s \in 1..Len(call.sets) : \A k \in 1..Len(call.sets[s].sources) :
            \A j \in call.sets[s].sources[k].evaluations :
                call.evaluations[j].mode = call.modeFilter

\* C19: in the point sets that use solve time, each point comes from an
\* exercise with solvedAt set and 0.5 <= (solvedAt - displayedAt)/1000 <= 120
\* and carries that duration; an exercise without solvedAt or outside the
\* band contributes no point.
C19_SolveTimeGate ==
    call.op = "pointSets" =>
        \A s \in 1..Len(call.sets) :
            call.sets[s].metric \in {"difficulty vs time", "time vs rating"} =>
                LET points  == call.sets[s].points
                    sources == call.sets[s].sources
                    inBand(ex) == /\ ex.solvedAt # Undefined
                                  /\ ex.solvedAt # 0
                                  /\ SolveTimeMs(ex) >= 500
                                  /\ SolveTimeMs(ex) <= 120000
                IN  /\ Len(points) = Len(sources)
                    /\ \A k \in 1..Len(sources) :
                          LET ex       == call.exercises[sources[k].exercise]
                              duration == IF call.sets[s].metric = "time vs rating"
                                          THEN points[k].x ELSE points[k].y
                          IN  /\ inBand(ex)
                              /\ RatEq(duration, Rat(SolveTimeMs(ex), 1000))
                    /\ \A i \in 1..Len(call.exercises) :
                          ~inBand(call.exercises[i]) =>
                              \A k \in 1..Len(sources) : sources[k].exercise # i

\* C19 witness: the optimizer keeps the exercises of exactly 500 ms and
\* 120000 ms and drops those of 499 ms and 120001 ms.
C19_Witness ==
    /\ call.op = "pointSets"
    /\ call.site = "calculateCorrelationsForWeights"
    /\ \E k \in 1..Len(call.sets[1].sources) :
          SolveTimeMs(call.exercises[call.sets[1].sources[k].exercise]) = 500
    /\ \E k \in 1..Len(call.sets[1].sources) :
          SolveTimeMs(call.exercises[call.sets[1].sources[k].exercise]) = 120000
    /\ \E i \in 1..Len(call.exercises) : SolveTimeMs(call.exercises[i]) = 499
    /\ \E i \in 1..Len(call.exercises) : SolveTimeMs(call.exercises[i]) = 120001
    /\ Len(call.sets[1].points) = 2

\* C20: in the correctness point sets an exercise contributes a point only
\* with a keystroke count k, L <= k <= 5L for L the digits of its answer; the
\* point's y is 1 when k = L and 0 otherwise, which is what the export's
\* isIdealKeystrokes column says of the exercise.
C20_EfficiencyBandAndLabel ==
    call.op = "pointSets" =>
        \A s \in 1..Len(call.sets) :
            call.sets[s].metric \in {"difficulty vs correctness", "rating vs correctness"} =>
                LET points  == call.sets[s].points
                    sources == call.sets[s].sources
                IN  /\ Len(points) = Len(sources)
                    /\ \A k \in 1..Len(sources) :
                          LET ex == call.exercises[sources[k].exercise]
                              L  == NumDigits(ex.answer)
                          IN  /\ ex.keystrokeCount # Undefined
                              /\ L <= ex.keystrokeCount
                              /\ ex.keystrokeCount <= 5 * L
                              /\ points[k].y = RatOfInt(IF ex.keystrokeCount = L THEN 1 ELSE 0)
                              /\ points[k].y = RatOfInt(1) <=> isIdealKeystrokes(ex) = "true"
                              /\ points[k].y = RatOfInt(0) <=> isIdealKeystrokes(ex) = "false"

\* C20 witness: the optimizer keeps the exercises with k = L and k = 5L, the
\* second labelled 0, and drops those with k = 5L + 1 and k = L - 1.
C20_Witness ==
    /\ call.op = "pointSets"
    /\ call.site = "calculateCorrelationsForWeights"
    /\ Len(call.sets[3].points) = 2
    /\ \E k \in 1..2 :
          LET ex == call.exercises[call.sets[3].sources[k].exercise]
          IN  ex.keystrokeCount = 5 * NumDigits(ex.answer) /\ call.sets[3].points[k].y = RatOfInt(0)
    /\ \E k \in 1..2 :
          LET ex == call.exercises[call.sets[3].sources[k].exercise]
          IN  ex.keystrokeCount = NumDigits(ex.answer) /\ call.sets[3].points[k].y = RatOfInt(1)
    /\ \E i \in 1..Len(call.exercises) :
          call.exercises[i].keystrokeCount = 5 * NumDigits(call.exercises[i].answer) + 1
    /\ \E i \in 1..Len(call.exercises) :
          /\ call.exercises[i].keystrokeCount # Undefined
          /\ call.exercises[i].keystrokeCount < NumDigits(call.exercises[i].answer)

\* The evaluations that pass the mode and rating gates and hold the id of the
\* i-th exercise.
ReferencingEvaluations(i) ==
    {j \in 1..Len(call.evaluations) :
        /\ call.modeFilter = "all" \/ call.evaluations[j].mode = call.modeFilter
        /\ call.evaluations[j].rating >= 1
        /\ call.evaluations[j].rating <= 9
        /\ \E k \in 1..Len(call.evaluations[j].exerciseIds) :
              call.evaluations[j].exerciseIds[k] = call.exercises[i].id}

RECURSIVE SumOfRatings(_)
SumOfRatings(js) ==
    IF js = {} THEN 0
    ELSE LET j == CHOOSE e \in js : TRUE
         IN  call.evaluations[j].rating + SumOfRatings(js \ {j})

\* C21: in the difficulty vs rating set of the optimizer and of the
\* predictor, each exercise referenced by at least one evaluation that passes
\* the mode and rating gates contributes exactly one point, its y the mean of
\* those ratings (4 and 8 give 6); any other exercise contributes none.
C21_AverageRatingCollapse ==
    (call.op = "pointSets" /\ call.site # "CognitiveLoadCorrelations") =>
        LET points  == call.sets[2].points
            sources == call.sets[2].sources
        IN  /\ call.sets[2].metric = "difficulty vs rating"
            /\ Len(points) = Len(sources)
            /\ \A i \in 1..Len(call.exercises) :
                  Cardinality({k \in 1..Len(sources) : sources[k].exercise = i})
                      = IF ReferencingEvaluations(i) # {} THEN 1 ELSE 0
            /\ \A k \in 1..Len(sources) :
                  LET from == ReferencingEvaluations(sources[k].exercise)
                  IN  /\ sources[k].evaluations = from
                      /\ points[k].y.d > 0
                      /\ points[k].y.n * Cardinality(from) = SumOfRatings(from) * points[k].y.d
                      /\ {call.evaluations[j].rating : j \in from} = {4, 8}
                             => RatEq(points[k].y, Rat(6, 1))

\* C21 witness: the optimizer builds a point of mean 6 from ratings 4 and 8
\* while an evaluation of rating 0 is in the collection.
C21_Witness ==
    /\ call.op = "pointSets"
    /\ call.site = "calculateCorrelationsForWeights"
    /\ \E j \in 1..Len(call.evaluations) : call.evaluations[j].rating = 0
    /\ \E k \in 1..Len(call.sets[2].sources) :
          /\ Cardinality(call.sets[2].sources[k].evaluations) = 2
          /\ RatEq(call.sets[2].points[k].y, Rat(6, 1))

RECURSIVE SumOfTotals(_, _)
SumOfTotals(rows, i) ==
    IF i > Len(rows) THEN 0 ELSE rows[i].totalCount + SumOfTotals(rows, i + 1)

\* C22: difficultyBuckets counts every non-outlier correctness point in
\* exactly one of 20 bins, bin min(floor(x / 5), 19); only bins with a sample
\* appear; the totalCounts sum to the number of non-outlier points and in
\* each row 0 <= correctCount <= totalCount and totalCount >= 1.
C22_DifficultyBuckets ==
    call.op = "difficultyBuckets" =>
        LET rows == call.result.rows
            kept == {k \in 1..Len(call.points) : ~call.points[k].isOutlier}
            binOf(k) == IF RatLess(call.points[k].x, Rat(100, 1))
                        THEN CHOOSE i \in 0..19 :
                                 /\ ~RatLess(call.points[k].x, Rat(5 * i, 1))
                                 /\ RatLess(call.points[k].x, Rat(5 * i + 5, 1))
                        ELSE 19
        IN  /\ ~call.result.threw
            /\ SumOfTotals(rows, 1) = Cardinality(kept)
            /\ \A r \in 1..Len(rows) :
                  /\ rows[r].bucket \in 0..19
                  /\ rows[r].totalCount >= 1
                  /\ 0 <= rows[r].correctCount
                  /\ rows[r].correctCount <= rows[r].totalCount
                  /\ rows[r].totalCount
                         = Cardinality({k \in kept : binOf(k) = rows[r].bucket})
                  /\ \A q \in 1..Len(rows) : q < r => rows[q].bucket < rows[r].bucket
            /\ \A k \in kept : \E r \in 1..Len(rows) : rows[r].bucket = binOf(k)

\* C22 witness: a point of x = 100 counted in the last bin, an outlier left
\* out, and a bin holding both a correct and an incorrect answer or two bins.
C22_Witness ==
    /\ call.op = "difficultyBuckets"
    /\ \E k \in 1..Len(call.points) :
          ~call.points[k].isOutlier /\ RatEq(call.points[k].x, Rat(100, 1))
    /\ \E r \in 1..Len(call.result.rows) : call.result.rows[r].bucket = 19
    /\ Len(call.result.rows) >= 2
    /\ \E k \in 1..Len(call.points) : call.points[k].isOutlier

\* C23: after applyOutlierDetection returns, every DataPoint of the input
\* list has the x, y and isOutlier it had before the call.
C23_InputsUnmodified ==
    call.op = "applyOutlierDetection" => call.inputAfter = call.points

\* C23 for the coordinates alone.
C23_CoordinatesUnmodified ==
    call.op = "applyOutlierDetection" =>
        /\ XValues(call.inputAfter) = XValues(call.points)
        /\ YValues(call.inputAfter) = YValues(call.points)

\* C23 for gridSearch: a run never changes the collections it was given.
C23_GridSearchLeavesCollections ==
    [][pc # "idle" => (exercises' = exercises /\ evaluations' = evaluations)]_vars

(***************************************************************************)
(* The settings store: db.userSettings and its three writers.  Every       *)
(* writer is an async function with two awaits, a read and a write, so a   *)
(* call is in flight at "get" and then at "write"; calls of any kind and   *)
(* for any user interleave at these awaits.  The schema declares           *)
(* userSettings as "++id,&userId,updatedAt": id is the auto-increment key  *)
(* and userId carries a unique index, so an add of a second row for a user *)
(* is rejected with a ConstraintError.  Weights are in thousandths.        *)
(***************************************************************************)
MaxNow == 3

UserIds == {1, 2}

ExerciseModes == {"timed", "self-paced"}

\* Weights the predictor can hold: the defaults, a slider position, and a
\* triple of the optimizer's grid.
PersistedWeightPool ==
    {DEFAULT_DIFFICULTY_WEIGHTS,
     [digits |-> 300, carryovers |-> 4000, zeros |-> 0]}

\* A replace of the whole row by the changes, in place of update.
UpdateRowReplacing(row, changes) ==
    [f \in DOMAIN row |->
        IF f \in DOMAIN changes THEN changes[f]
        ELSE IF f \in {"id", "userId"} THEN row[f]
        ELSE IF f = "difficultyWeights" THEN NoWeights
        ELSE IF f = "exerciseMode" THEN "undefined"
        ELSE IF f = "graduallyIncreaseDifficulty" THEN FALSE
        ELSE Undefined]

\* Math.round(value * 100) / 100 on a weight in thousandths.
roundWeight(value) == ((value + 5) \div 10) * 10

toPersistableWeights(weights) ==
    [digits     |-> roundWeight(weights.digits),
     carryovers |-> roundWeight(weights.carryovers),
     zeros      |-> roundWeight(weights.zeros)]

NoRow == [id |-> Undefined]

\* A row of userSettings with the fields an add leaves out undefined.
SettingsRow(id, userId, gradually, activatedAt, mode, weights, updatedAt) ==
    [id |-> id, userId |-> userId, graduallyIncreaseDifficulty |-> gradually,
     progressiveDifficultyActivatedAt |-> activatedAt, exerciseMode |-> mode,
     difficultyWeights |-> weights, updatedAt |-> updatedAt]

\* db.userSettings.get({ userId }): the row of the user, or undefined.
SettingsGet(rows, userId) ==
    IF \E row \in rows : row.userId = userId
    THEN CHOOSE row \in rows : row.userId = userId
    ELSE NoRow

\* Table.update(key, changes) on one row: the named fields are replaced.
UpdateRow(row, changes) ==
    [f \in DOMAIN row |-> IF f \in DOMAIN changes THEN changes[f] ELSE row[f]]

SettingsUpdate(rows, id, changes) ==
    {IF row.id = id THEN UpdateRow(row, changes) ELSE row : row \in rows}

\* Table.add(row) is rejected when the unique index on userId finds a row.
AddRejected(rows, row) == \E other \in rows : other.userId = row.userId

Writer(fn, userId, value, at, time, request, origin) ==
    [fn |-> fn, userId |-> userId, value |-> value, at |-> at, now |-> time,
     request |-> request, origin |-> origin]

NoRequest == [kind |-> "none"]

\* The call of a writer up to its first await: persistDifficultyWeights
\* reads the clock before the read, the other two after it.
StartWriter(fn, userId, value) ==
    /\ now < MaxNow
    /\ now' = now + 1
    /\ writers' = Append(writers, Writer(fn, userId, value, "get", now', NoRequest, [kind |-> "call", user |-> userId]))

\* The body of persistDifficultyWeights after the read.
PersistRequest(w, existing) ==
    LET payload == toPersistableWeights(w.value)
    IN  IF existing.id # Undefined
        THEN [kind |-> "update", id |-> existing.id,
              changes |-> [difficultyWeights |-> payload, updatedAt |-> w.now]]
        ELSE [kind |-> "add",
              row |-> SettingsRow(Undefined, w.userId, FALSE, Undefined, "undefined", payload, w.now)]

\* The body of updateGraduallyIncreaseDifficulty after the read.
GraduallyRequest(w, existing, time) ==
    LET activatedAt == IF w.value THEN time ELSE Undefined
    IN  IF existing.id # Undefined
        THEN [kind |-> "update", id |-> existing.id,
              changes |-> [graduallyIncreaseDifficulty |-> w.value,
                           progressiveDifficultyActivatedAt |-> activatedAt,
                           updatedAt |-> time]]
        ELSE [kind |-> "add",
              row |-> SettingsRow(Undefined, w.userId, w.value, activatedAt, "undefined", NoWeights, time)]

\* The body of updateExerciseMode after the read.
ModeRequest(w, existing, time) ==
    IF existing.id # Undefined
    THEN [kind |-> "update", id |-> existing.id,
          changes |-> [exerciseMode |-> w.value, updatedAt |-> time]]
    ELSE [kind |-> "add",
          row |-> SettingsRow(Undefined, w.userId, FALSE, Undefined, w.value, NoWeights, time)]

RemoveAt(seq, i) == SubSeq(seq, 1, i - 1) \o SubSeq(seq, i + 1, Len(seq))

\* A finished call is recorded under its function's name.
RecordCall(calls, w) == [calls EXCEPT ![w.fn] = @ \cup {[userId |-> w.userId, value |-> w.value]}]

\* await db.userSettings.get({ userId }) resolves for one call in flight and
\* the call runs to its second await, the update or the add.
WriterGetResolves ==
    \E i \in 1..Len(writers) :
        LET w        == writers[i]
            existing == SettingsGet(userSettings, w.userId)
            request  == IF w.fn = "persistDifficultyWeights" THEN PersistRequest(w, existing)
                        ELSE IF w.fn = "updateGraduallyIncreaseDifficulty" THEN GraduallyRequest(w, existing, now)
                        ELSE ModeRequest(w, existing, now)
        IN  /\ w.at = "get"
            /\ writers' = [writers EXCEPT ![i] = [w EXCEPT !.at = "write", !.request = request]]
            /\ UNCHANGED <<userSettings, nextSettingsId, now, rejected, fulfilled, settingsRefs>>

\* The refs a writer of useUserSettings assigns after its write.
RefsAfter(w) ==
    IF w.fn = "updateGraduallyIncreaseDifficulty"
    THEN [settingsRefs EXCEPT !.graduallyIncreaseDifficulty = w.value,
                              !.progressiveDifficultyActivatedAt =
                                  IF w.request.kind = "add"
                                  THEN w.request.row.progressiveDifficultyActivatedAt
                                  ELSE w.request.changes.progressiveDifficultyActivatedAt]
    ELSE IF w.fn = "updateExerciseMode"
    THEN [settingsRefs EXCEPT !.exerciseMode = w.value]
    ELSE settingsRefs

\* The update or the add of one call in flight is carried out and the call
\* runs to its end: the promise is fulfilled, or rejected by a failed add.
WriterWriteResolves ==
    \E i \in 1..Len(writers) :
        LET w == writers[i]
        IN  /\ w.at = "write"
            /\ writers' = RemoveAt(writers, i)
            /\ IF w.request.kind = "update"
               THEN /\ userSettings' = SettingsUpdate(userSettings, w.request.id, w.request.changes)
                    /\ fulfilled' = RecordCall(fulfilled, w)
                    /\ settingsRefs' = RefsAfter(w)
                    /\ UNCHANGED <<nextSettingsId, rejected>>
               ELSE IF AddRejected(userSettings, w.request.row)
               THEN /\ rejected' = RecordCall(rejected, w)
                    /\ UNCHANGED <<userSettings, nextSettingsId, fulfilled, settingsRefs>>
               ELSE /\ userSettings' = userSettings \cup {[w.request.row EXCEPT !.id = nextSettingsId]}
                    /\ nextSettingsId' = nextSettingsId + 1
                    /\ fulfilled' = RecordCall(fulfilled, w)
                    /\ settingsRefs' = RefsAfter(w)
                    /\ UNCHANGED rejected
            /\ UNCHANGED now

PersistDifficultyWeightsCall ==
    /\ \E userId \in UserIds, weights \in PersistedWeightPool :
          StartWriter("persistDifficultyWeights", userId, weights)
    /\ UNCHANGED <<userSettings, nextSettingsId, rejected, fulfilled, settingsRefs>>
    /\ UNCHANGED <<gridVars, call, predictorVars, sessionVars>>

UpdateGraduallyIncreaseDifficultyCall ==
    /\ \E userId \in UserIds, value \in BOOLEAN :
          StartWriter("updateGraduallyIncreaseDifficulty", userId, value)
    /\ UNCHANGED <<userSettings, nextSettingsId, rejected, fulfilled, settingsRefs>>
    /\ UNCHANGED <<gridVars, call, predictorVars, sessionVars>>

UpdateExerciseModeCall ==
    /\ \E userId \in UserIds, mode \in ExerciseModes :
          StartWriter("updateExerciseMode", userId, mode)
    /\ UNCHANGED <<userSettings, nextSettingsId, rejected, fulfilled, settingsRefs>>
    /\ UNCHANGED <<gridVars, call, predictorVars, sessionVars>>

SettingsGetResolves == WriterGetResolves /\ UNCHANGED <<gridVars, call, predictorVars, sessionVars>>

SettingsWriteResolves == WriterWriteResolves /\ UNCHANGED <<gridVars, call, predictorVars, sessionVars>>

NextSettings ==
    \/ PersistDifficultyWeightsCall
    \/ UpdateGraduallyIncreaseDifficultyCall
    \/ UpdateExerciseModeCall
    \/ SettingsGetResolves
    \/ SettingsWriteResolves

SpecSettings == Init /\ [][NextSettings]_vars

\* The rows of a table that belong to one user.
RowsOf(rows, userId) == {row \in rows : row.userId = userId}

\* The fields of a settings row that persistDifficultyWeights does not name.
FieldsKeptByPersist == {"id", "userId", "graduallyIncreaseDifficulty", "progressiveDifficultyActivatedAt", "exerciseMode"}

\* C24: when a call persistDifficultyWeights(userId, w) carries out its
\* write, then (a) if it had found a row, that row afterwards holds w as
\* difficultyWeights and the call's time as updatedAt, its other fields are
\* as before and so is every other row; (b) if it had found none and there
\* still is none, the table gains exactly one row, for userId, holding w, and
\* no other row changes.  In both cases the stored weights are w, also when
\* they were w before.
C24_PersistGetOrCreateThenUpdate ==
    [][\A i \in 1..Len(writers) :
          LET w == writers[i]
          IN  (/\ w.fn = "persistDifficultyWeights"
               /\ w.at = "write"
               /\ writers' = RemoveAt(writers, i)
               /\ fulfilled' # fulfilled)
              => /\ \A row \in userSettings : row.userId # w.userId => row \in userSettings'
                 /\ \A row \in userSettings' : row.userId # w.userId => row \in userSettings
                 /\ \E after \in userSettings' :
                       /\ RowsOf(userSettings', w.userId) = {after}
                       /\ after.difficultyWeights = w.value
                       /\ after.updatedAt = w.now
                       /\ IF w.request.kind = "update"
                          THEN \E before \in userSettings :
                                  /\ RowsOf(userSettings, w.userId) = {before}
                                  /\ \A f \in FieldsKeptByPersist : after[f] = before[f]
                          ELSE RowsOf(userSettings, w.userId) = {}
    ]_vars

\* C24 witness: persistDifficultyWeights has replaced the weights of a row
\* whose other fields another writer had set, and the other fields are there.
C24_Witness ==
    \E row \in userSettings :
        /\ row.graduallyIncreaseDifficulty
        /\ row.progressiveDifficultyActivatedAt # Undefined
        /\ row.difficultyWeights # NoWeights
        /\ row.difficultyWeights # DEFAULT_DIFFICULTY_WEIGHTS
        /\ [userId |-> row.userId, value |-> row.difficultyWeights] \in fulfilled["persistDifficultyWeights"]
        /\ writers = <<>>

\* The calls of one writer for one user that have returned, either way.
Finished(fn, userId) == {c \in fulfilled[fn] \cup rejected[fn] : c.userId = userId}

\* The field a writer is there to store, read from a row.
StoredBy(fn, row) ==
    IF fn = "persistDifficultyWeights" THEN row.difficultyWeights
    ELSE IF fn = "updateGraduallyIncreaseDifficulty" THEN row.graduallyIncreaseDifficulty
    ELSE row.exerciseMode

\* C27: once every settings writer in flight has returned, a user for whom
\* any writer ran has exactly one row, no call was rejected, and for every
\* writer that ran the row holds a value that a call of that writer passed.
C27_EveryWriterStored ==
    writers = <<>> =>
        \A userId \in UserIds :
            (\E fn \in WriterNames : Finished(fn, userId) # {}) =>
                /\ Cardinality(RowsOf(userSettings, userId)) = 1
                /\ \A fn \in WriterNames :
                      /\ \A c \in rejected[fn] : c.userId # userId
                      /\ Finished(fn, userId) # {} =>
                            \E row \in RowsOf(userSettings, userId), c \in Finished(fn, userId) :
                                StoredBy(fn, row) = c.value

\* C27, the part about the number of rows: a user never has two rows.
C27_AtMostOneRowPerUser ==
    \A userId \in UserIds : Cardinality(RowsOf(userSettings, userId)) <= 1

\* C27, restricted to writers that found a row: none of them is rejected and
\* each one's value is stored when it returns.
C27_UpdatesNeverLost ==
    [][\A i \in 1..Len(writers) :
          (/\ writers[i].at = "write"
           /\ writers[i].request.kind = "update"
           /\ writers' = RemoveAt(writers, i))
          => /\ rejected' = rejected
             /\ \E row \in RowsOf(userSettings', writers[i].userId) :
                   StoredBy(writers[i].fn, row) =
                       (IF writers[i].fn = "persistDifficultyWeights"
                        THEN toPersistableWeights(writers[i].value) ELSE writers[i].value)
    ]_vars

(***************************************************************************)
(* The difficulty predictor's persistence of its weights.  A change of     *)
(* props.activeUserId runs the first watcher, which loads the user's       *)
(* weights; every assignment to difficultyWeights runs the second watcher, *)
(* which schedules a debounced persist unless there is no active user or   *)
(* isApplyingPersistedWeights is set.  A watcher runs in the flush that    *)
(* follows the assignment, within the same task, so an assignment and the  *)
(* watcher it triggers are one step; the awaits of loadDifficultyWeights   *)
(* and of persistDifficultyWeights are where other steps come in between.  *)
(* Every timer and writer carries the origin of its weights: an edit made  *)
(* under some active user, or a load made for some user.                   *)
(***************************************************************************)
MaxPredictorEvents == 4

\* Positions of the digits slider (min 0, max 5, step 0.1), in thousandths.
DigitsSliderPool == {300, 1000}

\* A weight triple of the optimizer's grid.
OptimizedWeightPool == {[digits |-> 300, carryovers |-> 4000, zeros |-> 0]}

Origin(kind, user) == [kind |-> kind, user |-> user]

\* watch(difficultyWeights, ...): return when there is no active user or the
\* flag is set, else schedulePersist({ ...weights }), which clears the pending
\* timer and sets a new one for the user active now.
WeightsWatcher(timer, user, applying, weights, origin) ==
    IF user = 0 \/ applying THEN timer
    ELSE [pending |-> TRUE, userId |-> user,
          snapshot |-> toPersistableWeights(weights), origin |-> origin]

\* A user event on the component: the clock moves on.
PredictorEvent ==
    /\ now < MaxPredictorEvents
    /\ now' = now + 1

\* watch(() => props.activeUserId, ...) after the prop has changed.
ActiveUserChanges ==
    /\ PredictorEvent
    /\ \E userId \in {0} \cup UserIds :
          /\ userId # activeUserId
          /\ activeUserId' = userId
          /\ IF userId # 0
             THEN /\ isApplyingPersistedWeights' = TRUE
                  /\ loads' = Append(loads, [userId |-> userId])
                  /\ persistTimeout' = NoTimer
                  /\ UNCHANGED difficultyWeights
             ELSE /\ difficultyWeights' = mergeDifficultyWeights(NoWeights)
                  /\ isApplyingPersistedWeights' = FALSE
                  /\ persistTimeout' = WeightsWatcher(NoTimer, userId, FALSE, difficultyWeights', Origin("load", userId))
                  /\ UNCHANGED loads
    /\ UNCHANGED <<userSettings, nextSettingsId, writers, rejected, fulfilled, settingsRefs>>
    /\ UNCHANGED <<gridVars, call, sessionVars>>

\* loadDifficultyWeights from the read it awaits to its end: the stored
\* weights are applied, the flush awaited by nextTick runs the second
\* watcher, and the finally block clears the flag.
LoadDifficultyWeightsResolves ==
    /\ \E i \in 1..Len(loads) :
          LET userId   == loads[i].userId
              settings == SettingsGet(userSettings, userId)
              stored   == IF settings.id = Undefined THEN NoWeights ELSE settings.difficultyWeights
          IN  /\ difficultyWeights' = mergeDifficultyWeights(stored)
              /\ persistTimeout' = WeightsWatcher(persistTimeout, activeUserId, isApplyingPersistedWeights, difficultyWeights', Origin("load", userId))
              /\ isApplyingPersistedWeights' = FALSE
              /\ loads' = RemoveAt(loads, i)
    /\ UNCHANGED <<activeUserId, settingsVars>>
    /\ UNCHANGED <<gridVars, call, sessionVars>>

\* The digits slider is moved: v-model assigns difficultyWeights.digits.
DigitsSliderInput ==
    /\ PredictorEvent
    /\ \E digits \in DigitsSliderPool :
          /\ digits # difficultyWeights.digits
          /\ difficultyWeights' = [difficultyWeights EXCEPT !.digits = digits]
    /\ persistTimeout' = WeightsWatcher(persistTimeout, activeUserId, isApplyingPersistedWeights, difficultyWeights', Origin("edit", activeUserId))
    /\ UNCHANGED <<activeUserId, isApplyingPersistedWeights, loads>>
    /\ UNCHANGED <<userSettings, nextSettingsId, writers, rejected, fulfilled, settingsRefs>>
    /\ UNCHANGED <<gridVars, call, sessionVars>>

resetWeights ==
    /\ PredictorEvent
    /\ difficultyWeights' = mergeDifficultyWeights(NoWeights)
    /\ persistTimeout' = WeightsWatcher(persistTimeout, activeUserId, isApplyingPersistedWeights, difficultyWeights', Origin("edit", activeUserId))
    /\ UNCHANGED <<activeUserId, isApplyingPersistedWeights, loads>>
    /\ UNCHANGED <<userSettings, nextSettingsId, writers, rejected, fulfilled, settingsRefs>>
    /\ UNCHANGED <<gridVars, call, sessionVars>>

\* autoOptimize after gridSearch has returned: the result's weights are applied.
AutoOptimizeApplies ==
    /\ PredictorEvent
    /\ \E weights \in OptimizedWeightPool : difficultyWeights' = weights
    /\ persistTimeout' = WeightsWatcher(persistTimeout, activeUserId, isApplyingPersistedWeights, difficultyWeights', Origin("edit", activeUserId))
    /\ UNCHANGED <<activeUserId, isApplyingPersistedWeights, loads>>
    /\ UNCHANGED <<userSettings, nextSettingsId, writers, rejected, fulfilled, settingsRefs>>
    /\ UNCHANGED <<gridVars, call, sessionVars>>

\* The debounce timer set by schedulePersist fires.
PersistTimerFires ==
    /\ persistTimeout # NoTimer
    /\ persistTimeout' = NoTimer
    /\ writers' = Append(writers, Writer("persistDifficultyWeights", persistTimeout.userId, persistTimeout.snapshot, "get", now, NoRequest, persistTimeout.origin))
    /\ UNCHANGED <<activeUserId, difficultyWeights, isApplyingPersistedWeights, loads>>
    /\ UNCHANGED <<userSettings, nextSettingsId, now, rejected, fulfilled, settingsRefs>>
    /\ UNCHANGED <<gridVars, call, sessionVars>>

NextPredictor ==
    \/ ActiveUserChanges
    \/ LoadDifficultyWeightsResolves
    \/ DigitsSliderInput
    \/ resetWeights
    \/ AutoOptimizeApplies
    \/ PersistTimerFires
    \/ SettingsGetResolves
    \/ SettingsWriteResolves

SpecPredictor == Init /\ [][NextPredictor]_vars

\* C28: a pending persist never stems from a load: the weights of every
\* pending timer and of every persist in flight were edited, reset or
\* optimized, and that under the user they are written for.
C28_LoadNeverSchedulesPersist ==
    /\ persistTimeout # NoTimer =>
          persistTimeout.origin = Origin("edit", persistTimeout.userId)
    /\ \A i \in 1..Len(writers) :
          writers[i].origin = Origin("edit", writers[i].userId)

\* C28, the second half alone: no timer and no persist in flight carries
\* weights that were loaded for a user other than the one they are written for.
C28_NoWeightsOfAnotherUser ==
    /\ persistTimeout # NoTimer =>
          persistTimeout.origin.user = persistTimeout.userId
    /\ \A i \in 1..Len(writers) : writers[i].origin.user = writers[i].userId

\* C26: from the first evaluated combination on, and so in the result that
\* gridSearch returns, the incumbent's composite score is a number >= 0; the
\* first combination is the triple (0, 0, 0), whose three correlations are
\* null and whose composite score is 0.
C26_CompositeScoreNonNegative ==
    /\ (pc \in {"loop", "yield", "final", "done"} /\ currentCombination >= 1) =>
          /\ ~bestResult.compositeScore.negInf
          /\ bestResult.compositeScore.d > 0
          /\ bestResult.compositeScore.n >= 0
    /\ (pc \in {"loop", "yield", "final"} /\ currentCombination = 1) =>
          /\ bestResult.weights = [digits |-> 0, carryovers |-> 0, zeros |-> 0]
          /\ bestResult.correlations = [cl |-> Null, time |-> Null, correctness |-> Null]
          /\ bestResult.compositeScore = Finite(0, 1)
    /\ pc = "done" => currentCombination >= 1

\* C26 witness: a run over real data has returned a winner whose composite
\* score exceeds the 0 of the first triple.
C26_Witness ==
    /\ pc = "done"
    /\ exercises # <<>>
    /\ GreaterThan(bestResult.compositeScore, Finite(0, 1))
    /\ bestResult.weights # [digits |-> 0, carryovers |-> 0, zeros |-> 0]

(***************************************************************************)
(* The exercise view: one exercise at a time is shown, answered or timed   *)
(* out, rated in the evaluation prompt, and replaced.  Every handler is an *)
(* async function; it runs from one await to the next in one step, and the *)
(* handlers in flight interleave at their awaits.  Every await of the view *)
(* is on a storage request.  Requests on one table are carried out in the  *)
(* order in which they were made (transactions over the same object store  *)
(* run in the order of their creation); requests on different tables are   *)
(* carried out in any order.  A write takes effect when its request is     *)
(* carried out, and the handler that awaits it then runs on.               *)
(*                                                                         *)
(* Left out: the handlers that only log (focus, blur, visibility), the     *)
(* requests nobody awaits (the timer_started event), the typed text and    *)
(* the keystroke count (an input either equals the answer of some exercise *)
(* or of none; different exercises have different answers), the timer's    *)
(* ticks before it expires, and the branch of startNewExercise for         *)
(* progressive difficulty, which is off in the settings.  One user logs in *)
(* and stays.  The counters solvedWrites and timedOutWrites of an exercise *)
(* row record history for the properties, and so does the prompt number of *)
(* a row: the display of the prompt in which the rating was selected that  *)
(* saved the evaluation or created the exercise, 0 for other exercises.    *)
(***************************************************************************)
MaxSessionEvents == 4

\* Ratings 1..9 can be chosen; two of them are enough to tell calls apart.
RatingPool == {5, 6}

\* A handler call: where it stands and the locals it has set so far.
Handler(kind) ==
    [kind |-> kind, pc |-> "run", exerciseId |-> 0, typed |-> 0, rating |-> 0,
     ids |-> <<>>, mode |-> "undefined", prompt |-> 0, evaluationId |-> 0,
     request |-> NoRequest]

\* ExerciseRecord, with the history counters.
ExerciseRow(id, mode, prompt) ==
    [id |-> id, mode |-> mode, solved |-> FALSE, timedOut |-> "undefined",
     evaluationId |-> 0, solvedWrites |-> 0, timedOutWrites |-> 0, prompt |-> prompt]

\* EvaluationRecord, with the number of the prompt display it was given in.
EvaluationRow(id, rating, exerciseIds, mode, prompt) ==
    [id |-> id, rating |-> rating, exerciseIds |-> exerciseIds, mode |-> mode,
     prompt |-> prompt]

\* Everything a handler of the view reads or writes, as one value.
World ==
    [session |-> session, handlers |-> handlers, queues |-> queues,
     exerciseTable |-> exerciseTable, evaluationTable |-> evaluationTable,
     userSettings |-> userSettings, nextSettingsId |-> nextSettingsId,
     settingsRefs |-> settingsRefs]

Become(w) ==
    /\ session' = w.session
    /\ handlers' = w.handlers
    /\ queues' = w.queues
    /\ exerciseTable' = w.exerciseTable
    /\ evaluationTable' = w.evaluationTable
    /\ userSettings' = w.userSettings
    /\ nextSettingsId' = w.nextSettingsId
    /\ settingsRefs' = w.settingsRefs
    /\ UNCHANGED <<now, writers, rejected, fulfilled>>
    /\ UNCHANGED <<gridVars, call, predictorVars>>

\* A handler is called: it gets the next place in handlers.
Spawn(w, handler) == [w EXCEPT !.handlers = Append(@, handler)]

\* await of a request on a table: the handler waits there.
Await(w, id, store, at) ==
    [w EXCEPT !.handlers[id].pc = at, !.queues[store] = Append(@, id)]

\* The handler returns.
Return(w, id) == [w EXCEPT !.handlers[id].pc = "done"]

stopTimer(w) == [w EXCEPT !.session.timerInterval = FALSE]

\* startTimer: the guards, then a fresh interval.
startTimer(w) ==
    IF w.session.activeUserId = 0 \/ w.session.currentExercise = 0 THEN w
    ELSE [w EXCEPT !.session.timerInterval = TRUE, !.session.correctAnswerGiven = FALSE]

\* startNewExercise up to await db.exercises.add of createExerciseRecord.
startNewExercise(w, id) ==
    IF w.session.activeUserId = 0 THEN Return(w, id)
    ELSE IF w.session.isGeneratingExercise THEN Return(w, id)
    ELSE Await([w EXCEPT !.session.isGeneratingExercise = TRUE,
                         !.handlers[id].mode = w.settingsRefs.exerciseMode],
               id, "exercises", "createAdd")

\* What the caller of openEvaluationPrompt does when it returns:
\* handleCorrectAnswer clears isProcessingSolve, handleTimerComplete ends.
AfterEvaluationPrompt(w, id) ==
    IF w.handlers[id].kind = "input"
    THEN Return([w EXCEPT !.session.isProcessingSolve = FALSE], id)
    ELSE Return(w, id)

\* openEvaluationPrompt up to its query of the most recent exercise.
openEvaluationPrompt(w, id) ==
    IF w.session.currentExercise = 0 \/ w.session.activeUserId = 0
    THEN AfterEvaluationPrompt(w, id)
    ELSE Await(w, id, "exercises", "promptQuery")

\* handleInput after its log write, were isProcessingSolve not consulted.
ShouldSolveUnguarded(s, typed) == typed # 0 /\ typed = s.currentExercise

\* !isProcessingSolve.value && sanitized &&
\* Number(sanitized) === currentExercise.value.answer
ShouldSolve(s, typed) ==
    ~s.isProcessingSolve /\ typed # 0 /\ typed = s.currentExercise

\* The tail of submitEvaluation and of skipEvaluation.
CloseEvaluationPrompt(w, id) ==
    startNewExercise([w EXCEPT !.session.evaluationVisible = FALSE,
                               !.session.evaluationExerciseIds = <<>>], id)

\* The request a handler awaits has been carried out: its effect on the
\* table, and the handler's code up to its next await or its end.
Resume(w, id) ==
    LET h == w.handlers[id]
        s == w.session
    IN  CASE h.pc = "loadGet" ->
               LET settings == SettingsGet(w.userSettings, s.activeUserId)
                   refs == IF settings.id # Undefined
                           THEN [graduallyIncreaseDifficulty |-> settings.graduallyIncreaseDifficulty,
                                 progressiveDifficultyActivatedAt |-> settings.progressiveDifficultyActivatedAt,
                                 exerciseMode |-> IF settings.exerciseMode = "undefined"
                                                  THEN "self-paced" ELSE settings.exerciseMode]
                           ELSE [graduallyIncreaseDifficulty |-> FALSE,
                                 progressiveDifficultyActivatedAt |-> Undefined,
                                 exerciseMode |-> "self-paced"]
               IN  startNewExercise([w EXCEPT !.settingsRefs = refs], id)
          [] h.pc = "createAdd" ->
               LET newId == Len(w.exerciseTable) + 1
               IN  Await([w EXCEPT !.exerciseTable = Append(@, ExerciseRow(newId, h.mode, h.prompt)),
                                   !.handlers[id].exerciseId = newId],
                         id, "events", "createLog")
          [] h.pc = "createLog" -> Await(w, id, "exercises", "createGet")
          [] h.pc = "createGet" ->
               LET shown == [w EXCEPT !.session.currentExercise = h.exerciseId,
                                      !.session.correctAnswerGiven = FALSE]
                   timed == IF shown.settingsRefs.exerciseMode = "timed"
                            THEN startTimer(shown) ELSE shown
               IN  Return([timed EXCEPT !.session.isGeneratingExercise = FALSE], id)
          [] h.pc = "inputLog" ->
               IF ShouldSolve(s, h.typed)
               THEN Await([w EXCEPT !.session.isProcessingSolve = TRUE,
                                    !.session.correctAnswerGiven = TRUE,
                                    !.handlers[id].exerciseId = s.currentExercise],
                          id, "exercises", "solveUpdate")
               ELSE Return(w, id)
          [] h.pc = "solveUpdate" ->
               Await([w EXCEPT !.exerciseTable[h.exerciseId].solved = TRUE,
                               !.exerciseTable[h.exerciseId].timedOut = "false",
                               !.exerciseTable[h.exerciseId].solvedWrites = @ + 1],
                     id, "events", "solveLog")
          [] h.pc = "solveLog" -> Await(w, id, "events", "correctLog")
          [] h.pc = "correctLog" ->
               IF w.settingsRefs.exerciseMode = "self-paced"
               THEN openEvaluationPrompt(stopTimer(w), id)
               ELSE AfterEvaluationPrompt(w, id)
          [] h.pc = "promptQuery" ->
               Await([w EXCEPT !.session.evaluationExerciseIds = <<Len(w.exerciseTable)>>],
                     id, "events", "promptLog")
          [] h.pc = "promptLog" ->
               AfterEvaluationPrompt(
                   [w EXCEPT !.session.evaluationVisible = TRUE,
                             !.session.promptDisplays = IF s.evaluationVisible THEN @ ELSE @ + 1],
                   id)
          [] h.pc = "timeoutUpdate" ->
               Await([w EXCEPT !.exerciseTable[h.exerciseId].timedOut = "true",
                               !.exerciseTable[h.exerciseId].timedOutWrites = @ + 1],
                     id, "events", "timeoutLog")
          [] h.pc = "timeoutLog" -> openEvaluationPrompt(w, id)
          [] h.pc = "ratingLog" ->
               IF s.activeUserId = 0 \/ s.evaluationExerciseIds = <<>>
               THEN Return(w, id)
               ELSE Await([w EXCEPT !.handlers[id].ids = s.evaluationExerciseIds,
                                    !.handlers[id].mode = w.settingsRefs.exerciseMode],
                          id, "evaluations", "evalAdd")
          [] h.pc = "evalAdd" ->
               LET newId == Len(w.evaluationTable) + 1
               IN  Await([w EXCEPT !.evaluationTable = Append(@, EvaluationRow(newId, h.rating, h.ids, h.mode, h.prompt)),
                                   !.handlers[id].evaluationId = newId],
                         id, "events", "evalLog")
          [] h.pc = "evalLog" -> Await(w, id, "evaluations", "evalGet")
          [] h.pc = "evalGet" ->
               IF s.evaluationExerciseIds # <<>>
               THEN Await([w EXCEPT !.handlers[id].ids = s.evaluationExerciseIds],
                          id, "exercises", "attachUpdate")
               ELSE Await(w, id, "events", "attachLog")
          [] h.pc = "attachUpdate" ->
               Await([w EXCEPT !.exerciseTable =
                          [k \in 1..Len(@) |->
                              IF \E j \in 1..Len(h.ids) : h.ids[j] = k
                              THEN [@[k] EXCEPT !.evaluationId = h.evaluationId]
                              ELSE @[k]]],
                     id, "events", "attachLog")
          [] h.pc = "attachLog" -> CloseEvaluationPrompt(w, id)
          [] h.pc = "skipLog" -> CloseEvaluationPrompt(w, id)
          [] h.pc = "modeGet" ->
               LET existing == SettingsGet(w.userSettings, s.activeUserId)
                   request  == ModeRequest([userId |-> s.activeUserId, value |-> h.mode], existing, now)
               IN  Await([w EXCEPT !.handlers[id].request = request],
                         id, "userSettings", "modeWrite")
          [] h.pc = "modeWrite" ->
               IF h.request.kind = "update"
               THEN Await([w EXCEPT !.userSettings = SettingsUpdate(@, h.request.id, h.request.changes),
                                    !.settingsRefs.exerciseMode = h.mode],
                          id, "events", "modeLog")
               ELSE IF AddRejected(w.userSettings, h.request.row)
               THEN Return(w, id)
               ELSE Await([w EXCEPT !.userSettings = @ \cup {[h.request.row EXCEPT !.id = w.nextSettingsId]},
                                    !.nextSettingsId = @ + 1,
                                    !.settingsRefs.exerciseMode = h.mode],
                          id, "events", "modeLog")
          [] h.pc = "modeLog" ->
               IF s.currentExercise # 0
               THEN Await([w EXCEPT !.handlers[id].exerciseId = s.currentExercise],
                          id, "exercises", "modeUpdate")
               ELSE startNewExercise(stopTimer(w), id)
          [] h.pc = "modeUpdate" ->
               Await([w EXCEPT !.exerciseTable[h.exerciseId].mode = h.mode],
                     id, "events", "modeUpdateLog")
          [] h.pc = "modeUpdateLog" -> startNewExercise(stopTimer(w), id)

\* The request at the head of a table's queue is carried out.
RequestCompletes ==
    \E store \in Stores :
        /\ queues[store] # <<>>
        /\ Become(Resume([World EXCEPT !.queues[store] = Tail(@)], Head(queues[store])))

SessionEvent == Len(handlers) < MaxSessionEvents

NextHandler == Len(handlers) + 1

\* watch(() => activeUserId.value, ...): a user logs in.  resetState finds
\* the state it would set; loadUserSettings and startNewExercise follow.
UserLogsIn ==
    /\ SessionEvent
    /\ session.activeUserId = 0
    /\ Become(Await(Spawn([World EXCEPT !.session.activeUserId = 1], Handler("activate")),
                    NextHandler, "userSettings", "loadGet"))

\* canInteract, which enables the answer field.
canInteract == ~session.evaluationVisible /\ session.currentExercise # 0 /\ ~session.correctAnswerGiven

\* handleInput up to await logEvent: the text typed equals the answer of the
\* exercise on display, or it does not.
handleInput ==
    /\ SessionEvent
    /\ canInteract
    /\ session.activeUserId # 0
    /\ \E typed \in {0, session.currentExercise} :
          Become(Await(Spawn(World, [Handler("input") EXCEPT !.typed = typed]),
                       NextHandler, "events", "inputLog"))

\* The interval callback at the tick that finds the time used up: stopTimer,
\* then handleTimerComplete up to its first await.
handleTimerComplete ==
    /\ SessionEvent
    /\ session.timerInterval
    /\ LET w == Spawn(stopTimer(World), Handler("timer"))
       IN  Become(IF session.activeUserId = 0 \/ session.currentExercise = 0
                  THEN Return(w, NextHandler)
                  ELSE IF ~session.correctAnswerGiven
                  THEN Await([w EXCEPT !.handlers[NextHandler].exerciseId = session.currentExercise],
                             NextHandler, "exercises", "timeoutUpdate")
                  ELSE openEvaluationPrompt(w, NextHandler))

\* selectEvaluationRating up to await logEvent, called by a radio button of
\* the dialog or by handleEvaluationKeydown while the dialog is visible.
selectEvaluationRating ==
    /\ SessionEvent
    /\ session.evaluationVisible
    /\ session.activeUserId # 0
    /\ \E rating \in RatingPool :
          Become(Await(Spawn(World, [Handler("rating") EXCEPT !.rating = rating,
                                                              !.prompt = session.promptDisplays]),
                       NextHandler, "events", "ratingLog"))

\* skipEvaluation up to await logEvent, called by the dialog's button.
skipEvaluation ==
    /\ SessionEvent
    /\ session.evaluationVisible
    /\ session.activeUserId # 0 /\ session.currentExercise # 0
    /\ Become(Await(Spawn(World, Handler("skip")), NextHandler, "events", "skipLog"))

\* onModeToggle up to the read of updateExerciseMode (useUserSettings); the
\* checkbox is disabled while the dialog is visible.
onModeToggle ==
    /\ SessionEvent
    /\ ~session.evaluationVisible
    /\ session.activeUserId # 0
    /\ \E nextMode \in ExerciseModes :
          /\ settingsRefs.exerciseMode # nextMode
          /\ Become(Await(Spawn(World, [Handler("mode") EXCEPT !.mode = nextMode]),
                          NextHandler, "userSettings", "modeGet"))

NextSession ==
    \/ UserLogsIn
    \/ handleInput
    \/ handleTimerComplete
    \/ selectEvaluationRating
    \/ skipEvaluation
    \/ onModeToggle
    \/ RequestCompletes

SpecSession == Init /\ [][NextSession]_vars

\* C25: no exercise row has had solvedAt and keystrokeCount written more
\* than once, whatever handlers are in flight.
C25_SolvedAtMostOnce ==
    \A k \in 1..Len(exerciseTable) : exerciseTable[k].solvedWrites <= 1

\* C25 witness: an exercise has been marked solved while another input
\* handler with the right answer was awaiting its log write, and that handler
\* has run to its end.
C25_Witness ==
    \E k \in 1..Len(exerciseTable) :
        /\ exerciseTable[k].solvedWrites = 1
        /\ \E i, j \in 1..Len(handlers) :
              /\ i # j
              /\ handlers[i].kind = "input" /\ handlers[i].typed = k /\ handlers[i].exerciseId = k
              /\ handlers[j].kind = "input" /\ handlers[j].typed = k /\ handlers[j].exerciseId = 0
              /\ handlers[i].pc = "done" /\ handlers[j].pc = "done"

\* C29: for every display of the evaluation prompt, the rating selections
\* made in it have saved at most one evaluation row and have created at most
\* one exercise.
C29_OneEvaluationPerPrompt ==
    \A p \in 1..session.promptDisplays :
        /\ Cardinality({k \in 1..Len(evaluationTable) : evaluationTable[k].prompt = p}) <= 1
        /\ Cardinality({k \in 1..Len(exerciseTable) : exerciseTable[k].prompt = p}) <= 1

\* C29, the exercises alone.
C29_OneExercisePerPrompt ==
    \A p \in 1..session.promptDisplays :
        Cardinality({k \in 1..Len(exerciseTable) : exerciseTable[k].prompt = p}) <= 1

\* C30: no exercise row has had both markExerciseTimedOut and
\* markExerciseSolved applied to it.
C30_TimedOutOrSolved ==
    \A k \in 1..Len(exerciseTable) :
        ~(exerciseTable[k].timedOutWrites >= 1 /\ exerciseTable[k].solvedWrites >= 1)

\* C30, the second half alone: an exercise that has been marked solved is not
\* marked timed out afterwards.
C30_NoTimeOutAfterSolved ==
    [][\A k \in 1..Len(exerciseTable) :
          exerciseTable[k].solvedWrites >= 1 =>
              exerciseTable'[k].timedOutWrites = exerciseTable[k].timedOutWrites]_vars
====
